---------------------------- MODULE Spec2Model ----------------------------
(***************************************************************************)
(* A model of the ReAct agent of VitAI (src/agent.py): the orchestration   *)
(* loop ReActAgent.query, the action parser _parse_action and the answer   *)
(* extractor _extract_final_answer.                                        *)
(*                                                                         *)
(* Text is a sequence of tokens.  A token is a piece of text that the code *)
(* treats as a unit: one of the literal markers it searches for, a brace,  *)
(* a white-space character, a piece of JSON, or a word of prose:           *)
(*   "Thought:" "Action:" "Observation:"    the markers of a ReAct step    *)
(*   "Final Answer:"                        the marker, in its exact case  *)
(*   "final answer:"                        the marker in any other case   *)
(*   "Step 1:" "Step 2:" "Step 3:" "## Step" "### Step"                    *)
(*   "{" "}"                                a structural brace             *)
(*   "s{" "s}"         a JSON member whose string value holds a brace,     *)
(*                     such as "query": "a}b"                              *)
(*   "tool"            the JSON member  "tool": "<name>"                   *)
(*   "parameters"      the JSON key     "parameters":  (a value follows)   *)
(*   "null"            a JSON value that is not an object                  *)
(*   "SP" "NL"         a blank, a line feed                                *)
(*   "w"               a word of prose                                     *)
(***************************************************************************)
EXTENDS Integers, Sequences, FiniteSets, TLC

VARIABLES
    pc,              \* position of the query in ReActAgent.query
    max_iterations,  \* self.max_iterations
    iteration,       \* the local counter of query
    messages,        \* the conversation of the query
    response,        \* the oracle's last response
    result,          \* what query returned
    oracleCalls,     \* number of _call_llm calls made by the query
    toolCalls,       \* number of _execute_tool calls made by the query
    iterTools,       \* _execute_tool calls made in the current iteration
    text,            \* input of the pure text functions
    nfrags,          \* number of pieces the input was composed of
    out,             \* their result
    phase,           \* "input" while the text is composed, "done" once applied
    max_length,      \* _truncate_observation: its second argument
    tool_name,       \* _execute_tool: its first argument
    parameters,      \* _execute_tool: its second argument
    tpc,             \* position of the call in _execute_tool
    tlocal,          \* locals of get_repository_tree: branch and tree_sha
    requests,        \* the HTTP requests the call has sent, in order
    resp,            \* the last HTTP response received
    outcome,         \* what _request made of it
    tresult,         \* the payload _execute_tool returned
    now,             \* int(time.time()) during the call
    previous,        \* an earlier execution of the same call, when repeated
    agent,           \* main._agent: the agent shared by every call
    calls            \* the locals of each call of ReActAgent.query

vars == <<pc, max_iterations, iteration, messages, response, result,
          oracleCalls, toolCalls, iterTools, text, nfrags, out, phase,
          max_length, tool_name, parameters, tpc, tlocal, requests, resp, outcome, tresult,
          now, previous, agent, calls>>

loopVars == <<pc, max_iterations, iteration, messages, response, result,
              oracleCalls, toolCalls, iterTools>>

textVars == <<text, nfrags, out, phase, max_length>>

toolVars == <<tool_name, parameters, tpc, tlocal, requests, resp, outcome, tresult,
              now, previous>>

agentVars == <<agent, calls>>

-----------------------------------------------------------------------------
(* Bounds of the model. *)

MaxIter == 4

MaxAnswerLen == 5

MaxParseFrags == 4

MaxObsFrags == 4

MaxLength == 6

MaxContentFrags == 3

MaxElapsed == 1

-----------------------------------------------------------------------------
(* Optional values: Python's None and a present value. *)

None == [some |-> FALSE, val |-> <<>>]

Some(v) == [some |-> TRUE, val |-> v]

-----------------------------------------------------------------------------
(* Strings as token sequences: the str methods the code uses. *)

Whitespace == {"SP", "NL"}

OpenBraces == {"{", "s{"}

CloseBraces == {"}", "s}"}

Range(s) == {s[i] : i \in 1..Len(s)}

\* str.find / str.rfind of a character class; 0 stands for Python's -1
FirstIdx(s, S) ==
    IF \E i \in 1..Len(s) : s[i] \in S
    THEN CHOOSE i \in 1..Len(s) : s[i] \in S /\ \A j \in 1..(i-1) : s[j] \notin S
    ELSE 0

LastIdx(s, S) ==
    IF \E i \in 1..Len(s) : s[i] \in S
    THEN CHOOSE i \in 1..Len(s) : s[i] \in S /\ \A j \in (i+1)..Len(s) : s[j] \notin S
    ELSE 0

\* str.count of a marker
Count(s, t) == Cardinality({i \in 1..Len(s) : s[i] = t})

\* s[i:] (1-based)
From(s, i) == SubSeq(s, i, Len(s))

\* str.find of a substring: the first position where sub occurs in s, 0 if none
FindSub(s, sub) ==
    LET fits(p) == SubSeq(s, p, p + Len(sub) - 1) = sub
        cand == {p \in 1..(Len(s) - Len(sub) + 1) : fits(p)}
    IN  IF Len(sub) = 0 THEN 1
        ELSE IF cand = {} THEN 0
        ELSE CHOOSE p \in cand : \A q \in cand : p <= q

\* str.strip
RECURSIVE LStrip(_)
LStrip(s) == IF Len(s) > 0 /\ s[1] \in Whitespace THEN LStrip(Tail(s)) ELSE s

RECURSIVE RStrip(_)
RStrip(s) ==
    IF Len(s) > 0 /\ s[Len(s)] \in Whitespace
    THEN RStrip(SubSeq(s, 1, Len(s) - 1)) ELSE s

Strip(s) == RStrip(LStrip(s))

\* str.split('\n'): the lines of s, a sequence of token sequences
RECURSIVE SplitLines(_)
SplitLines(s) ==
    LET n == FirstIdx(s, {"NL"})
    IN  IF n = 0 THEN <<s>>
        ELSE <<SubSeq(s, 1, n - 1)>> \o SplitLines(From(s, n + 1))

\* "\n".join(lines)
RECURSIVE JoinLines(_)
JoinLines(ls) ==
    IF Len(ls) = 0 THEN <<>>
    ELSE IF Len(ls) = 1 THEN ls[1]
    ELSE ls[1] \o <<"NL">> \o JoinLines(Tail(ls))

-----------------------------------------------------------------------------
(* json.loads on a span of text that starts with a brace.  JsonMembers and  *)
(* JsonValue return the position just after what they parsed, 0 when the   *)
(* text is not valid JSON (json.loads raises JSONDecodeError).             *)

RECURSIVE JsonMembers(_, _), JsonValue(_, _)

JsonValue(s, i) ==
    IF i > Len(s) THEN 0
    ELSE IF s[i] \in Whitespace THEN JsonValue(s, i + 1)
    ELSE IF s[i] = "{" THEN JsonMembers(s, i + 1)
    ELSE IF s[i] = "null" THEN i + 1
    ELSE 0

JsonMembers(s, i) ==
    IF i > Len(s) THEN 0
    ELSE IF s[i] \in Whitespace THEN JsonMembers(s, i + 1)
    ELSE IF s[i] = "}" THEN i + 1
    ELSE IF s[i] \in {"tool", "s{", "s}"} THEN JsonMembers(s, i + 1)
    ELSE IF s[i] = "parameters"
         THEN LET j == JsonValue(s, i + 1)
              IN  IF j = 0 THEN 0 ELSE JsonMembers(s, j)
    ELSE 0

\* json.loads(s) returns (a dict) rather than raising
JsonLoads(s) == Len(s) > 0 /\ s[1] = "{" /\ JsonMembers(s, 2) = Len(s) + 1

\* nesting depth of position i in a valid JSON text
Depth(s, i) ==
    Cardinality({j \in 1..(i-1) : s[j] = "{"})
      - Cardinality({j \in 1..(i-1) : s[j] = "}"})

\* key in json.loads(s), for the two keys the code asks for
HasKey(s, k) == \E i \in 1..Len(s) : s[i] = k /\ Depth(s, i) = 1

\* 'tool' in action and 'parameters' in action
HasBothKeys(s) == HasKey(s, "tool") /\ HasKey(s, "parameters")

-----------------------------------------------------------------------------
(* ReActAgent._parse_action.  An action is represented by the JSON text it  *)
(* was loaded from.                                                        *)

\* the brace-counting loop of method 1, started at an opening brace with
\* brace_count = 0: the position where the count returns to zero, 0 if never
RECURSIVE BraceMatch(_, _, _)
BraceMatch(s, i, brace_count) ==
    IF i > Len(s) THEN 0
    ELSE IF s[i] \in OpenBraces THEN BraceMatch(s, i + 1, brace_count + 1)
    ELSE IF s[i] \in CloseBraces
         THEN IF brace_count - 1 = 0 THEN i
              ELSE BraceMatch(s, i + 1, brace_count - 1)
    ELSE BraceMatch(s, i + 1, brace_count)

\* Method 1: the JSON after the first "Action:".  kind is "return" (the
\* action is returned), "raise" (json.loads raised) or "next" (control
\* reaches method 2).
Method1(t) ==
    IF "Action:" \notin Range(t) THEN [kind |-> "next", val |-> <<>>]
    ELSE LET action_idx == FirstIdx(t, {"Action:"})
             text_after_action == Strip(From(t, action_idx + 1))
             start_idx == FirstIdx(text_after_action, OpenBraces)
             end_idx == BraceMatch(text_after_action, start_idx, 0)
             json_str == SubSeq(text_after_action, start_idx, end_idx)
         IN  IF start_idx = 0 \/ end_idx = 0 THEN [kind |-> "next", val |-> <<>>]
             ELSE IF ~JsonLoads(json_str) THEN [kind |-> "raise", val |-> <<>>]
             ELSE IF HasBothKeys(json_str) THEN [kind |-> "return", val |-> json_str]
             ELSE [kind |-> "next", val |-> <<>>]

\* the text methods 2 and 3 search: what precedes the final-answer marker
SearchText(t) ==
    IF "Final Answer:" \in Range(t)
    THEN SubSeq(t, 1, FirstIdx(t, {"Final Answer:"}) - 1)
    ELSE IF "final answer:" \in Range(t)
    THEN SubSeq(t, 1, FirstIdx(t, {"final answer:"}) - 1)
    ELSE t

\* Method 2: from the first opening brace to the last closing brace
Method2(t) ==
    LET search_text == SearchText(t)
        start_idx == FirstIdx(search_text, OpenBraces)
        end_idx == LastIdx(search_text, CloseBraces)
        json_str == SubSeq(search_text, start_idx, end_idx)
    IN  IF start_idx # 0 /\ end_idx # 0
        THEN IF ~JsonLoads(json_str) THEN [kind |-> "raise", val |-> <<>>]
             ELSE IF HasBothKeys(json_str) THEN [kind |-> "return", val |-> json_str]
             ELSE [kind |-> "none", val |-> <<>>]
        ELSE [kind |-> "none", val |-> <<>>]

\* the next brace after position i, 0 if none
NextBrace(s, i) ==
    LET k == FirstIdx(From(s, i + 1), OpenBraces \cup CloseBraces)
    IN  IF k = 0 THEN 0 ELSE i + k

\* the end of the match of json_pattern that starts at the opening brace p,
\* 0 if it matches neither alternative there
PatternEnd(s, p) ==
    LET n1 == NextBrace(s, p)
        n2 == NextBrace(s, n1)
        n3 == NextBrace(s, n2)
    IN  IF n1 = 0 THEN 0
        ELSE IF s[n1] \in CloseBraces THEN n1
        ELSE IF n2 = 0 \/ s[n2] \in OpenBraces THEN 0
        ELSE IF n3 = 0 \/ s[n3] \in OpenBraces THEN 0
        ELSE n3

\* re.findall(json_pattern, s) from position p on
RECURSIVE FindAll(_, _)
FindAll(s, p) ==
    IF p > Len(s) THEN <<>>
    ELSE IF s[p] \notin OpenBraces \/ PatternEnd(s, p) = 0 THEN FindAll(s, p + 1)
    ELSE <<SubSeq(s, p, PatternEnd(s, p))>> \o FindAll(s, PatternEnd(s, p) + 1)

\* the loop over the matches: the first that loads and has both keys
RECURSIVE FirstAction(_)
FirstAction(matches) ==
    IF Len(matches) = 0 THEN None
    ELSE IF JsonLoads(matches[1]) /\ HasBothKeys(matches[1]) THEN Some(matches[1])
    ELSE FirstAction(Tail(matches))

\* Method 3, the except branch: the regex sweep
Method3(t) == FirstAction(FindAll(SearchText(t), 1))

ParseAction(t) ==
    LET m1 == Method1(t)
        m2 == Method2(t)
    IN  IF m1.kind = "return" THEN Some(m1.val)
        ELSE IF m1.kind = "raise" THEN Method3(t)
        ELSE IF m2.kind = "return" THEN Some(m2.val)
        ELSE IF m2.kind = "raise" THEN Method3(t)
        ELSE None

-----------------------------------------------------------------------------
(* ReActAgent._extract_final_answer. *)

simulation_patterns == {"Step 1:", "Step 2:", "Step 3:", "### Step", "## Step"}

\* pattern in text, for a pattern of simulation_patterns
InText(pattern, t) ==
    \E i \in 1..Len(t) :
        \/ t[i] = pattern
        \/ pattern = "## Step" /\ t[i] = "### Step"

\* a faulty variant: the test for "Observation:" is missing
IsSimulation_NoObservation(t) ==
    LET thought_count == Count(t, "Thought:")
        action_count == Count(t, "Action:")
        has_simulation_pattern == \E pattern \in simulation_patterns : InText(pattern, t)
    IN  has_simulation_pattern \/ thought_count > 1 \/ action_count > 1

\* the multi-step test that rejects every final answer
IsSimulation(t) ==
    LET thought_count == Count(t, "Thought:")
        action_count == Count(t, "Action:")
        observation_in_text == "Observation:" \in Range(t)
        has_simulation_pattern == \E pattern \in simulation_patterns : InText(pattern, t)
    IN  has_simulation_pattern \/ observation_in_text
          \/ thought_count > 1 \/ action_count > 1

\* stripped.startswith("Final Answer:") or stripped.lower().startswith("final answer:")
StartsWithMarker(line) ==
    LET stripped == Strip(line)
    IN  Len(stripped) > 0 /\ stripped[1] \in {"Final Answer:", "final answer:"}

\* "Action:" in line and '{' in text[text.find(line):]
IsActionLine(t, line) ==
    /\ "Action:" \in Range(line)
    /\ Range(From(t, FindSub(t, line))) \cap OpenBraces # {}

\* the value the for loop leaves in final_answer_line_idx (0 for -1; lines
\* are numbered from 1)
FinalAnswerLineIdx(lines) ==
    LET hit == {idx \in 1..Len(lines) : StartsWithMarker(lines[idx])}
    IN  IF hit = {} THEN 0 ELSE CHOOSE idx \in hit : \A k \in hit : k <= idx

\* the value the for loop leaves in action_line_idx
ActionLineIdx(t, lines) ==
    LET hit == {idx \in 1..Len(lines) : IsActionLine(t, lines[idx])}
    IN  IF hit = {} THEN 0 ELSE CHOOSE idx \in hit : \A k \in hit : k <= idx

\* a faulty variant: split("Final Answer:")[-1], the text after the last marker
AfterMarker_Last(final_answer_line) ==
    IF "Final Answer:" \in Range(final_answer_line)
    THEN Strip(From(final_answer_line,
                    LastIdx(final_answer_line, {"Final Answer:"}) + 1))
    ELSE Strip(From(final_answer_line,
                    LastIdx(final_answer_line, {"final answer:"}) + 1))

\* the part of the final-answer line after the marker, stripped
AfterMarker(final_answer_line) ==
    IF "Final Answer:" \in Range(final_answer_line)
    THEN Strip(From(final_answer_line,
                    FirstIdx(final_answer_line, {"Final Answer:"}) + 1))
    ELSE Strip(From(final_answer_line,
                    FirstIdx(final_answer_line, {"final answer:"}) + 1))

\* a faulty variant: the answer is returned without the test for content
ExtractFinalAnswer_NoContentTest(t) ==
    LET lines == SplitLines(t)
        final_answer_line_idx == FinalAnswerLineIdx(lines)
        action_line_idx == ActionLineIdx(t, lines)
        remaining_lines == From(lines, final_answer_line_idx + 1)
        first == AfterMarker(lines[final_answer_line_idx])
        answer == IF Len(remaining_lines) > 0
                  THEN first \o <<"NL">> \o JoinLines(remaining_lines)
                  ELSE first
    IN  IF IsSimulation(t) THEN None
        ELSE IF action_line_idx > final_answer_line_idx /\ final_answer_line_idx # 0
        THEN None
        ELSE IF final_answer_line_idx = 0 THEN None
        ELSE Some(Strip(answer))

ExtractFinalAnswer(t) ==
    LET lines == SplitLines(t)
        final_answer_line_idx == FinalAnswerLineIdx(lines)
        action_line_idx == ActionLineIdx(t, lines)
        remaining_lines == From(lines, final_answer_line_idx + 1)
        first == AfterMarker(lines[final_answer_line_idx])
        answer == IF Len(remaining_lines) > 0
                  THEN first \o <<"NL">> \o JoinLines(remaining_lines)
                  ELSE first
    IN  IF IsSimulation(t) THEN None
        ELSE IF action_line_idx > final_answer_line_idx /\ final_answer_line_idx # 0
        THEN None
        ELSE IF final_answer_line_idx = 0 THEN None
        ELSE IF Len(Strip(answer)) > 0 THEN Some(Strip(answer))
        ELSE None

-----------------------------------------------------------------------------
(* ReActAgent._truncate_observation.  An observation is a sequence of       *)
(* tokens, each counted as one character:                                  *)
(*   "{" "}" "[" "]"   the brackets of JSON                                 *)
(*   "total"           the member  "total_count": <n>                      *)
(*   "items" "dirs"    the keys  "items":  and  "directories":  (a value   *)
(*                     follows: a list or null)                            *)
(*   "i"               an item of a list                                   *)
(*   "note" <n>        the member  "note": "Showing 3 of <n> total items   *)
(*                     to save context"                                    *)
(*   "null"            the JSON value null                                 *)
(*   "ws"              white space between the tokens of JSON               *)
(*   "x"               a character of plain text                           *)
(*   "... [truncated, originally" <n> "chars]"   the truncation marker      *)

\* a member of a JSON object: its key, the type of its value, the items of a
\* list (each as json.dumps writes it), and the member as json.dumps writes it
Member(key, type, items, dump) ==
    [key |-> key, type |-> type, items |-> items, dump |-> dump]

RECURSIVE ObsSkipWs(_, _)
ObsSkipWs(s, i) == IF i <= Len(s) /\ s[i] = "ws" THEN ObsSkipWs(s, i + 1) ELSE i

\* data[key] = value on the members of a dict: a new key goes last, a key
\* that is there keeps its place
Put(members, m) ==
    IF \E k \in 1..Len(members) : members[k].key = m.key
    THEN [k \in 1..Len(members) |->
             IF members[k].key = m.key THEN m ELSE members[k]]
    ELSE Append(members, m)

RECURSIVE DumpItems(_)
DumpItems(items) ==
    IF Len(items) = 0 THEN <<>>
    ELSE <<"ws">> \o items[1] \o DumpItems(Tail(items))

\* json.dumps of a list, with indent=2
DumpList(items) ==
    IF Len(items) = 0 THEN <<"[", "]">>
    ELSE <<"[">> \o DumpItems(items) \o <<"ws", "]">>

RECURSIVE DumpMembers(_)
DumpMembers(members) ==
    IF Len(members) = 0 THEN <<>>
    ELSE <<"ws">> \o members[1].dump \o DumpMembers(Tail(members))

\* json.dumps(data, indent=2)
ObsDumps(members) ==
    IF Len(members) = 0 THEN <<"{", "}">>
    ELSE <<"{">> \o DumpMembers(members) \o <<"ws", "}">>

\* json.loads, by recursive descent.  Each of the three returns the position
\* after what it read, 0 when the text is not JSON.
RECURSIVE ObsValue(_, _), ObsList(_, _, _), ObsMembers(_, _, _)

\* the value at position i
ObsValue(s, i) ==
    LET j == ObsSkipWs(s, i)
        fail == [end |-> 0, type |-> "", items |-> <<>>, dump |-> <<>>]
    IN  IF j > Len(s) THEN fail
        ELSE IF s[j] \in {"null", "i"}
        THEN [end |-> j + 1, type |-> "scalar", items |-> <<>>, dump |-> <<s[j]>>]
        ELSE IF s[j] = "["
        THEN LET l == ObsList(s, j + 1, <<>>)
             IN  IF l.end = 0 THEN fail
                 ELSE [end |-> l.end, type |-> "list", items |-> l.items,
                       dump |-> DumpList(l.items)]
        ELSE IF s[j] = "{"
        THEN LET m == ObsMembers(s, j + 1, <<>>)
             IN  IF m.end = 0 THEN fail
                 ELSE [end |-> m.end, type |-> "object", items |-> <<>>,
                       dump |-> ObsDumps(m.members)]
        ELSE fail

\* the items of the list whose '[' is just before i
ObsList(s, i, acc) ==
    LET j == ObsSkipWs(s, i)
        v == ObsValue(s, j)
    IN  IF j > Len(s) THEN [end |-> 0, items |-> <<>>]
        ELSE IF s[j] = "]" THEN [end |-> j + 1, items |-> acc]
        ELSE IF v.end = 0 THEN [end |-> 0, items |-> <<>>]
        ELSE ObsList(s, v.end, Append(acc, v.dump))

\* the members of the object whose '{' is just before i
ObsMembers(s, i, acc) ==
    LET j == ObsSkipWs(s, i)
        v == ObsValue(s, j + 1)
        fail == [end |-> 0, members |-> <<>>]
    IN  IF j > Len(s) THEN fail
        ELSE IF s[j] = "}" THEN [end |-> j + 1, members |-> acc]
        ELSE IF s[j] = "total"
        THEN ObsMembers(s, j + 1,
                        Put(acc, Member("total_count", "scalar", <<>>, <<"total">>)))
        ELSE IF s[j] = "note"
        THEN IF j + 1 <= Len(s) /\ s[j + 1] \in {ToString(n) : n \in 0..99}
             THEN ObsMembers(s, j + 2,
                             Put(acc, Member("note", "scalar", <<>>, <<"note", s[j + 1]>>)))
             ELSE fail
        ELSE IF s[j] \in {"items", "dirs"}
        THEN IF v.end = 0 THEN fail
             ELSE ObsMembers(s, v.end,
                             Put(acc, Member(s[j], v.type, v.items, <<s[j]>> \o v.dump)))
        ELSE fail

\* json.loads(observation): ok is FALSE when it raises or the value is no
\* object
ObsLoads(s) ==
    LET i == ObsSkipWs(s, 1)
        m == ObsMembers(s, i + 1, <<>>)
    IN  IF i <= Len(s) /\ s[i] = "{" /\ m.end # 0 /\ ObsSkipWs(s, m.end) = Len(s) + 1
        THEN [ok |-> TRUE, members |-> m.members]
        ELSE [ok |-> FALSE, members |-> <<>>]

\* 'items' in data and isinstance(data['items'], list)
HasItemsList(members) ==
    \E k \in 1..Len(members) : members[k].key = "items" /\ members[k].type = "list"

\* data['items']
Items(members) ==
    LET k == CHOOSE k \in 1..Len(members) : members[k].key = "items"
    IN  members[k].items

Min(a, b) == IF a <= b THEN a ELSE b

\* data['items'] = data['items'][:3], and the note when items were dropped
TruncateItems(members) ==
    LET original_count == Len(Items(members))
        first3 == SubSeq(Items(members), 1, Min(original_count, 3))
        kept == Put(members, Member("items", "list", first3,
                                    <<"items">> \o DumpList(first3)))
    IN  IF original_count > 3
        THEN Put(kept, Member("note", "scalar", <<>>,
                              <<"note", ToString(original_count)>>))
        ELSE kept

\* f"\n... [truncated, originally {len(observation)} chars]"
TruncationMarker(n) == <<"... [truncated, originally", ToString(n), "chars]">>

TruncateObservation(observation, limit) ==
    LET data == ObsLoads(observation)
    IN  IF Len(observation) <= limit THEN observation
        ELSE IF data.ok /\ HasItemsList(data.members)
        THEN ObsDumps(TruncateItems(data.members))
        ELSE SubSeq(observation, 1, limit) \o TruncationMarker(Len(observation))

-----------------------------------------------------------------------------
(* GitHubSearchClient._request (src/search.py): the classification of one  *)
(* HTTP response.                                                          *)

Max(a, b) == IF a >= b THEN a ELSE b

\* int(time.time()) when the call is made for the first time
Now == 5

\* the X-RateLimit-Reset header: absent, the empty string, text that is not
\* a number, or a number (an epoch second before or after Now)
ResetHeaders ==
    {[kind |-> "absent", val |-> 0], [kind |-> "empty", val |-> 0],
     [kind |-> "garbage", val |-> 0],
     [kind |-> "number", val |-> Now - 2], [kind |-> "number", val |-> Now + 4]}

\* the X-RateLimit-Remaining header
RemainingHeaders == {"0", "5", "absent"}

Statuses == {200, 304, 403, 404, 500}

\* the body: a JSON object with the fields the caller reads, a JSON object
\* that has none of them but a "message", or text that is not JSON
Bodies == {"expected", "message", "not_json"}

\* the responses the server may give; the rate-limit headers are varied
\* where the code looks at them, on a 403
HttpResponses ==
    {r \in [status : Statuses, remaining : RemainingHeaders,
            reset : ResetHeaders, body : Bodies] :
        r.status # 403 => r.remaining \in {"0", "absent"} /\ r.reset.kind = "absent"}

\* no response: self.session.request raised (time-out, connection error)
NoResponse ==
    [status |-> 0, remaining |-> "absent",
     reset |-> [kind |-> "absent", val |-> 0], body |-> "not_json"]

\* resp.ok of the requests library: the status is below 400
Ok(r) == r.status < 400

NoWait == [some |-> FALSE, val |-> 0]

\* an exception: its class and the parts of its message
Exception(type, msg) ==
    [type |-> type, text |-> msg, status |-> 0, detail |-> "", wait |-> NoWait]

NoException == Exception("", "")

\* RuntimeError("GitHub API rate limit exceeded." [" Retry after ~{wait}s."])
RateLimitError(wait) ==
    [type |-> "RuntimeError", text |-> "GitHub API rate limit exceeded.",
     status |-> 0, detail |-> "", wait |-> wait]

\* RuntimeError(f"GitHub API error {resp.status_code}: {err}")
ApiError(status, err) ==
    [type |-> "RuntimeError", text |-> "GitHub API error",
     status |-> status, detail |-> err, wait |-> NoWait]

\* a faulty variant: the estimate is not clamped at zero
Wait_NoClamp(reset) ==
    IF reset.kind = "number"
    THEN [some |-> TRUE, val |-> reset.val - now]
    ELSE NoWait

\* wait: max(0, int(reset) - int(time.time())) when the header is there and
\* parses, None otherwise
Wait(reset) ==
    IF reset.kind = "number"
    THEN [some |-> TRUE, val |-> Max(0, reset.val - now)]
    ELSE NoWait

\* err = data.get("message", resp.text), resp.text when the body is not JSON
ErrorDetail(r) == IF r.body = "message" THEN "message" ELSE "resp.text"

\* what _request does: it returns data or raises
Data(body) == [kind |-> "data", body |-> body, exc |-> NoException]

Raise(exc) == [kind |-> "raise", body |-> "", exc |-> exc]

NoOutcome == [kind |-> "none", body |-> "", exc |-> NoException]

Request(r) ==
    IF r = NoResponse THEN Raise(Exception("ConnectionError", "connection failed"))
    ELSE IF r.status = 403 /\ r.remaining = "0" THEN Raise(RateLimitError(Wait(r.reset)))
    ELSE IF ~Ok(r) THEN Raise(ApiError(r.status, ErrorDetail(r)))
    ELSE IF r.body = "not_json" THEN Raise(Exception("JSONDecodeError", "Expecting value"))
    ELSE Data(r.body)

-----------------------------------------------------------------------------
(* ReActAgent._execute_tool and the client methods it calls.  A repository *)
(* name is a sequence of tokens, "/" being one of them.  tpc is the         *)
(* position of the call:                                                   *)
(*   "start"     entered, nothing done yet                                 *)
(*   "contents"  about to request the file contents                        *)
(*   "repo"      get_repository_tree, about to request the repository      *)
(*   "branch"    get_repository_tree, about to request the branch          *)
(*   "tree"      get_repository_tree, about to request the tree            *)
(*   "search"    about to send the search request                          *)
(*   "returned"  _execute_tool returned tresult                            *)
(*   "raised"    an exception left _execute_tool                           *)

\* self.repositories: the permitted repositories
repositories == << <<"o", "/", "r">> >>

\* the values the oracle may give a parameter: none, a string, or a value
\* that is not a string (the number 5)
Missing == [type |-> "missing", val |-> <<>>]

Str(v) == [type |-> "str", val |-> v]

NotStr == [type |-> "int", val |-> <<>>]

RepoValues ==
    {Missing, Str(<<>>), Str(<<"r">>), Str(<<"o", "/", "r">>),
     Str(<<"x", "/", "y">>), Str(<<"o", "/">>), Str(<<"/", "r">>), NotStr}

PathValues == {Missing, Str(<<>>), Str(<<"p">>)}

BranchValues == {Missing, Str(<<"b">>)}

QueryValues == {Missing, Str(<<>>), Str(<<"q">>), Str(<<"SP", "q", "SP">>)}

\* 'repos': none, a list of repository names, or the number 5
ReposValues ==
    {[type |-> "missing", val |-> <<>>],
     [type |-> "list", val |-> <<>>],
     [type |-> "list", val |-> << <<"o", "/", "r">> >>],
     [type |-> "list", val |-> << <<"x", "/", "y">> >>],
     [type |-> "list", val |-> << <<"o", "/", "r">>, <<"x", "/", "y">> >>],
     [type |-> "int", val |-> <<>>]}

KnownTools == {"search_code", "search_issues", "get_repo_structure", "get_file_contents"}

ToolNames == KnownTools \cup {"run_shell"}

\* a parameters value that is not a mapping (null, a list, a string)
NonMapping ==
    [mapping |-> FALSE, repo |-> Missing, path |-> Missing, branch |-> Missing,
     query |-> Missing, repos |-> [type |-> "missing", val |-> <<>>]]

ParametersValues ==
    {NonMapping} \cup
    [mapping : {TRUE}, repo : RepoValues, path : PathValues,
     branch : BranchValues, query : QueryValues, repos : ReposValues]

\* parameters.get(key, default)
Get(v, default) == IF v.type = "missing" THEN default ELSE v

\* repo.split('/', 1)
Owner(repo) == SubSeq(repo, 1, FirstIdx(repo, {"/"}) - 1)

RepoName(repo) == From(repo, FirstIdx(repo, {"/"}) + 1)

\* not repo or '/' not in repo
InvalidRepo(repo) == repo.val = <<>> \/ "/" \notin Range(repo.val)

\* str(e)
ToStr(e) == [e EXCEPT !.type = ""]

Message(msg) == Exception("", msg)

\* the payloads _execute_tool serializes
NoPayload == [error |-> FALSE, message |-> NoException, kind |-> "none"]

ErrorPayload(message) == [error |-> TRUE, message |-> message, kind |-> "error"]

ResultPayload(kind) == [error |-> FALSE, message |-> NoException, kind |-> kind]

\* json.dumps of a payload, as the loop sees it: with an 'error' field or not
Serialized(payload) == IF payload.error THEN <<"error">> ELSE <<"result">>

NoLocals == [branch |-> <<>>, tree_sha |-> <<>>]

\* the outcome of a stretch of _execute_tool: it returns a payload, goes on
\* to a request, or raises
Return(payload) ==
    [kind |-> "return", next |-> "returned", payload |-> payload,
     exc |-> NoException, loc |-> NoLocals]

Goto(position, loc) ==
    [kind |-> "goto", next |-> position, payload |-> NoPayload,
     exc |-> NoException, loc |-> loc]

Raised(exc) ==
    [kind |-> "raise", next |-> "raised", payload |-> NoPayload,
     exc |-> exc, loc |-> NoLocals]

AttributeError == Exception("AttributeError", "object has no attribute 'get'")

TypeError == Exception("TypeError", "argument is not iterable")

KeyError == Exception("KeyError", "'commit'")

\* the body of the try up to the first request
Validate(tn, ps) ==
    IF ~ps.mapping THEN Raised(AttributeError)
    ELSE IF tn = "get_file_contents"
    THEN LET repo == Get(ps.repo, Str(<<>>))
             path == Get(ps.path, Str(<<>>))
         IN  IF repo.type = "int" THEN Raised(TypeError)
             ELSE IF InvalidRepo(repo)
             THEN Return(ErrorPayload(Message("Invalid repo parameter. Must be in format owner/repo")))
             ELSE IF path.val = <<>>
             THEN Return(ErrorPayload(Message("path parameter is required")))
             ELSE Goto("contents", NoLocals)
    ELSE IF tn = "get_repo_structure"
    THEN LET repo == Get(ps.repo, Str(<<>>))
         IN  IF repo.type = "int" THEN Raised(TypeError)
             ELSE IF InvalidRepo(repo)
             THEN Return(ErrorPayload(Message("Invalid repo parameter. Must be in format owner/repo")))
             ELSE IF ps.branch.type = "missing"
             THEN Goto("repo", NoLocals)
             ELSE Goto("branch", [branch |-> ps.branch.val, tree_sha |-> <<>>])
    ELSE LET repos == Get(ps.repos, [type |-> "list", val |-> repositories])
         IN  IF repos.type = "int" THEN Raised(TypeError)
             ELSE IF tn \in {"search_code", "search_issues"}
             THEN Goto("search", NoLocals)
             ELSE Return(ErrorPayload(Message("Unknown tool")))

RequestPositions == {"contents", "repo", "branch", "tree", "search"}

\* ' '.join(f'repo:{repo}' for repo in repos)
RECURSIVE RepoQualifiers(_)
RepoQualifiers(repos) ==
    IF Len(repos) = 0 THEN <<>>
    ELSE IF Len(repos) = 1 THEN <<"repo:">> \o repos[1]
    ELSE <<"repo:">> \o repos[1] \o <<"SP">> \o RepoQualifiers(Tail(repos))

FullQuery_NoQualifiers(query, repos) == query

\* full_query: the query followed by the qualifiers, stripped, when repos is
\* not empty, and the query alone otherwise
FullQuery(query, repos) ==
    IF repos # <<>> THEN Strip(query \o <<"SP">> \o RepoQualifiers(repos))
    ELSE query

\* the parts _build_query makes of the qualifiers, a sequence of
\* [key, value] in the mapping's order: a None or "" value is skipped, a
\* list gives one part per member
RECURSIVE QualifierParts(_)
QualifierParts(qualifiers) ==
    IF Len(qualifiers) = 0 THEN <<>>
    ELSE LET key == qualifiers[1].key
             value == qualifiers[1].value
         IN  (IF value.type = "none" \/ (value.type = "str" /\ value.val = <<>>)
              THEN <<>>
              ELSE IF value.type = "list"
              THEN [i \in 1..Len(value.val) |-> <<key>> \o value.val[i]]
              ELSE << <<key>> \o value.val >>)
             \o QualifierParts(Tail(qualifiers))

\* " ".join(parts)
RECURSIVE JoinSpaces(_)
JoinSpaces(parts) ==
    IF Len(parts) = 0 THEN <<>>
    ELSE IF Len(parts) = 1 THEN parts[1]
    ELSE parts[1] \o <<"SP">> \o JoinSpaces(Tail(parts))

\* _build_query: the free text, when it is not blank, then the qualifier
\* parts; every part stripped, blank parts dropped, joined by one space
BuildQuery(q, qualifiers) ==
    LET parts == (IF Strip(q) # <<>> THEN <<Strip(q)>> ELSE <<>>)
                 \o QualifierParts(qualifiers)
        stripped == [i \in 1..Len(parts) |-> Strip(parts[i])]
    IN  JoinSpaces(SelectSeq(stripped, LAMBDA p : p # <<>>))

\* the qualifiers of ReActAgentWithUI._execute_tool: {'repo': repos} when
\* repos is not empty
UIQualifiers(repos) ==
    IF repos # <<>>
    THEN << [key |-> "repo:", value |-> [type |-> "list", val |-> repos]] >>
    ELSE <<>>

NoRequest_Post ==
    [method |-> "POST", endpoint |-> "", repo |-> <<>>, path |-> <<>>,
     ref |-> <<>>, q |-> <<>>, repos |-> <<>>]

\* a request: every call of _request passes "GET"
NoRequest ==
    [method |-> "GET", endpoint |-> "", repo |-> <<>>, path |-> <<>>,
     ref |-> <<>>, q |-> <<>>, repos |-> <<>>]

\* no earlier execution; run is 1 during an execution that will be
\* repeated and 2 during its repetition, served are the responses the
\* first execution received
NoPrevious ==
    [run |-> 0, now |-> 0, requests |-> <<>>, served |-> <<>>, pc |-> "",
     result |-> NoPayload]

\* the request sent at a position
RequestAt(position, tn, ps, loc) ==
    IF position = "contents"
    THEN [NoRequest EXCEPT !.endpoint = "/repos/{owner}/{repo}/contents/{path}",
                           !.repo = ps.repo.val,
                           !.path = ps.path.val,
                           !.ref = Get(ps.branch, Str(<<>>)).val]
    ELSE IF position = "repo"
    THEN [NoRequest EXCEPT !.endpoint = "/repos/{owner}/{repo}",
                           !.repo = ps.repo.val]
    ELSE IF position = "branch"
    THEN [NoRequest EXCEPT !.endpoint = "/repos/{owner}/{repo}/branches/{branch}",
                           !.repo = ps.repo.val,
                           !.ref = loc.branch]
    ELSE IF position = "tree"
    THEN [NoRequest EXCEPT !.endpoint = "/repos/{owner}/{repo}/git/trees/{tree_sha}",
                           !.repo = ps.repo.val,
                           !.ref = loc.tree_sha]
    ELSE [NoRequest EXCEPT !.endpoint = IF tn = "search_code" THEN "/search/code"
                                        ELSE "/search/issues",
                           !.q = BuildQuery(
                               FullQuery(Get(ps.query, Str(<<>>)).val,
                                         Get(ps.repos, [type |-> "list",
                                                        val |-> repositories]).val),
                               <<>>),
                           !.repos = Get(ps.repos, [type |-> "list",
                                                    val |-> repositories]).val]

\* a faulty variant: the tree is fetched by the name of the branch, without
\* the request for the branch
AfterRequest_SkipBranch(position, o, tn, loc) ==
    IF o.kind = "raise" THEN Raised(o.exc)
    ELSE IF position = "contents" THEN Return(ResultPayload("file"))
    ELSE IF position = "repo"
    THEN Goto("tree", [loc EXCEPT !.tree_sha = IF o.body = "expected"
                                                 THEN <<"default_branch">>
                                                 ELSE <<"main">>])
    ELSE IF position = "branch"
    THEN IF o.body = "expected" THEN Goto("tree", [loc EXCEPT !.tree_sha = <<"sha">>])
         ELSE Raised(KeyError)
    ELSE IF position = "tree" THEN Return(ResultPayload("structure"))
    ELSE Return(ResultPayload(tn))

\* what follows a request at a position, given what _request did
AfterRequest(position, o, tn, loc) ==
    IF o.kind = "raise" THEN Raised(o.exc)
    ELSE IF position = "contents" THEN Return(ResultPayload("file"))
    ELSE IF position = "repo"
    THEN Goto("branch", [loc EXCEPT !.branch = IF o.body = "expected"
                                               THEN <<"default_branch">>
                                               ELSE <<"main">>])
    ELSE IF position = "branch"
    THEN IF o.body = "expected" THEN Goto("tree", [loc EXCEPT !.tree_sha = <<"sha">>])
         ELSE Raised(KeyError)
    ELSE IF position = "tree" THEN Return(ResultPayload("structure"))
    ELSE Return(ResultPayload(tn))

\* a faulty variant: the exception is not caught
ExceptHandler_Reraise(step, position) == step

\* a faulty variant: a failed request is sent again
ExceptHandler_Retry(step, position) ==
    IF step.kind = "raise" /\ position \in RequestPositions
    THEN Goto(position, step.loc)
    ELSE IF step.kind = "raise" THEN Return(ErrorPayload(ToStr(step.exc)))
    ELSE step

\* except Exception as e: return json.dumps({'error': str(e)})
ExceptHandler(step, position) ==
    IF step.kind = "raise" THEN Return(ErrorPayload(ToStr(step.exc))) ELSE step

IdleTool ==
    /\ tool_name = ""
    /\ parameters = NonMapping
    /\ tpc = "idle"
    /\ tlocal = NoLocals
    /\ requests = <<>>
    /\ resp = NoResponse
    /\ outcome = NoOutcome
    /\ tresult = NoPayload
    /\ now = Now
    /\ previous = NoPrevious

-----------------------------------------------------------------------------
(* ReActAgent.query: the loop.  pc is the position of the query:            *)
(*   "loop"      at the while test                                         *)
(*   "llm"       iteration incremented, inside _call_llm                   *)
(*   "parse"     the response is back, about to be interpreted             *)
(*   "answered"  returned a final answer                                   *)
(*   "exhausted" returned the exhaustion message                           *)
(*   "raised"    left by the exception of an oracle call                   *)
(* The loop is modelled from the while statement on, for the conversation  *)
(* that the statement before it is written to build; what evaluating that  *)
(* statement does is modelled by NewConversation, under SpecServe.         *)

\* what the oracle may answer: free text, here one text of each shape
RespAction == <<"Thought:", "w", "NL", "Action:", "SP",
                "{", "tool", "parameters", "{", "}", "}">>

RespAnswer == <<"Thought:", "w", "NL", "Final Answer:", "SP", "w">>

RespProse == <<"Thought:", "w">>

RespBoth == <<"Thought:", "w", "NL", "Action:", "SP",
              "{", "tool", "parameters", "{", "}", "}", "NL",
              "Final Answer:", "SP", "w">>

RespSimulated == <<"Step 1:", "w", "NL", "Observation:", "w", "NL",
                   "Final Answer:", "SP", "w">>

RespEmptyAnswer == <<"Final Answer:", "SP">>

RespTwoActions == <<"Action:", "SP", "{", "tool", "parameters", "{", "}", "}", "NL",
                    "Action:", "SP", "{", "tool", "parameters", "null", "}">>

Responses == {RespAction, RespAnswer, RespProse, RespBoth, RespSimulated,
              RespEmptyAnswer, RespTwoActions}

\* what _execute_tool followed by _truncate_observation may return: a
\* result payload or an error payload
ToolResults == {<<"result">>, <<"error">>}

SystemMessage(content) == [role |-> "system", content |-> content]

UserMessage(content) == [role |-> "user", content |-> content]

AssistantMessage(content) == [role |-> "assistant", content |-> content]

\* the user message that carries an observation
ObservationMessage(observation) ==
    UserMessage(<<"Observation:">> \o observation \o <<"next step instructions">>)

\* the user message sent when the response is neither an action nor an answer
CorrectiveMessage == UserMessage(<<"I didn't find a valid action">>)

NoResult == [kind |-> "none", text |-> <<>>, ceiling |-> 0]

\* return final_answer
AnswerResult(answer) == [kind |-> "answer", text |-> answer, ceiling |-> 0]

\* a faulty variant: the message names the default ceiling of create_agent
ExhaustionMessage_Default(ceiling) ==
    [kind |-> "exhausted", text |-> <<"I've reached the maximum number of reasoning steps">>,
     ceiling |-> 5]

\* the message returned when the loop runs out, which names the ceiling
ExhaustionMessage(ceiling) ==
    [kind |-> "exhausted", text |-> <<"I've reached the maximum number of reasoning steps">>,
     ceiling |-> ceiling]

\* a faulty variant of the while test: iteration != self.max_iterations
LoopCondition_NotEqual(i, ceiling) == i # ceiling

\* a faulty variant of the while test: iteration <= self.max_iterations
LoopCondition_OffByOne(i, ceiling) == i <= ceiling

\* the while test
LoopCondition(i, ceiling) == i < ceiling

\* action = self._parse_action(response), for each response of the oracle
ParsedAction == [r \in Responses |-> ParseAction(r)]

\* final_answer = self._extract_final_answer(response), likewise
FinalAnswer == [r \in Responses |-> ExtractFinalAnswer(r)]

\* a faulty variant: the final answer is looked for before the action, as in
\* ReActAgentWithUI.query_with_steps
Branch_AnswerFirst(r) ==
    IF FinalAnswer[r].some THEN "answer"
    ELSE IF ParsedAction[r].some THEN "action"
    ELSE "corrective"

\* the branch an iteration takes on a response: the if / else of the body
Branch(r) ==
    IF ParsedAction[r].some THEN "action"
    ELSE IF FinalAnswer[r].some THEN "answer"
    ELSE "corrective"

DEFAULT_REPOSITORIES == <<"o/a", "o/b">>

\* the repositories argument of query: None or an empty list, or a list
RepositoriesArgs == {<<>>, <<"o/a">>, <<"o/a", "o/b">>, <<"o/b", "o/a">>}

\* how one repository was loaded: from its saved file, which also stores
\* its text, or not at all
Loaded == {"file", "error"}

\* an entry of self.repo_structures or of self.repo_structures_text
Structure(repo, loaded) == [key |-> repo, loaded |-> loaded]

\* the keys of a dict
Keys(d) == {d[k].key : k \in 1..Len(d)}

\* create_agent(repositories): the constructor loads every repository into
\* two empty dicts; o[repo] is how that repository loads
CreateAgent(repos, o) ==
    LET loaded == [k \in 1..Len(repos) |-> Structure(repos[k], o[repos[k]])]
    IN  [created |-> TRUE, repositories |-> repos,
         repo_structures |-> loaded,
         repo_structures_text |->
             SelectSeq([k \in 1..Len(repos) |-> Structure(repos[k], "full_text")],
                       LAMBDA e : o[e.key] = "file")]

\* one pass of the for loop of _load_repository_structures: the entry of repo
\* is set, and its text when it was read from the saved file
LoadRepo(a, repo, loaded) ==
    [a EXCEPT !.repo_structures = Put(@, Structure(repo, loaded)),
              !.repo_structures_text =
                  IF loaded = "file" THEN Put(@, Structure(repo, "full_text")) ELSE @]

\* _get_repo_context_summary: a section for every entry of repo_structures,
\* in the order of the dict
RECURSIVE RepoSections(_, _)
RepoSections(structures, texts) ==
    IF Len(structures) = 0 THEN <<>>
    ELSE LET s == structures[1]
             section == IF s.loaded = "error" THEN "Error loading structure"
                        ELSE IF s.loaded = "file" /\ s.key \in Keys(texts)
                        THEN "Loaded from saved file"
                        ELSE "Total items"
         IN  <<s.key, section>> \o RepoSections(Tail(structures), texts)

GetRepoContextSummary(a) ==
    IF Len(a.repo_structures) = 0
    THEN <<"No repository structure information available">>
    ELSE RepoSections(a.repo_structures, a.repo_structures_text)

\* the calls of ReActAgent.query that one process serves
Queries == {"main", "direct"}

\* main._agent before the first get_agent
NoAgent ==
    [created |-> FALSE, repositories |-> <<>>,
     repo_structures |-> <<>>, repo_structures_text |-> <<>>]

\* the locals of a call that has not started
NoCall ==
    [pc |-> "idle", repositories |-> <<>>, repos_changed |-> FALSE,
     todo |-> <<>>, idx |-> 0, repo_context |-> <<>>, messages |-> <<>>,
     result |-> NoResult]

IdleAgent ==
    agent = NoAgent /\ calls = [q \in Queries |-> NoCall]

IdleText ==
    text = <<>> /\ nfrags = 0 /\ out = None /\ phase = "idle" /\ max_length = 0

\* the query at its while statement, on an agent whose constructor has
\* loaded the index
Init ==
    /\ pc = "loop"
    /\ max_iterations \in -1..MaxIter
    /\ iteration = 0
    /\ messages = <<SystemMessage(<<"system_prompt">>), UserMessage(<<"Question:">>)>>
    /\ response = <<>>
    /\ result = NoResult
    /\ oracleCalls = 0
    /\ toolCalls = 0
    /\ iterTools = 0
    /\ IdleText
    /\ IdleTool
    /\ agent \in {CreateAgent(DEFAULT_REPOSITORIES, o) :
                      o \in [Range(DEFAULT_REPOSITORIES) -> Loaded]}
    /\ calls = [q \in Queries |-> NoCall]

\* while iteration < self.max_iterations: iteration += 1
EnterIteration ==
    /\ pc = "loop"
    /\ LoopCondition(iteration, max_iterations)
    /\ iteration' = iteration + 1
    /\ iterTools' = 0
    /\ pc' = "llm"
    /\ UNCHANGED <<agentVars, max_iterations, messages, response, result, oracleCalls,
                   toolCalls, textVars, toolVars>>

\* response = self._call_llm(messages)
CallLLM ==
    /\ pc = "llm"
    /\ \E r \in Responses : response' = r
    /\ oracleCalls' = oracleCalls + 1
    /\ pc' = "parse"
    /\ UNCHANGED <<agentVars, max_iterations, iteration, messages, result, toolCalls,
                   iterTools, textVars, toolVars>>

\* the exception of a failed oracle call, as it leaves ReActAgent.query
OracleError == [kind |-> "raised", text |-> <<"oracle unavailable">>, ceiling |-> 0]

\* a faulty variant: the exception is caught and the loop goes on
CallLLMRaises_Caught ==
    /\ pc = "llm"
    /\ oracleCalls' = oracleCalls + 1
    /\ result' = OracleError
    /\ pc' = "loop"
    /\ UNCHANGED <<agentVars, max_iterations, iteration, messages, response, toolCalls,
                   iterTools, textVars, toolVars>>

\* response = self._call_llm(messages) raises: neither _call_llm nor query
\* has a handler, so the exception leaves query
CallLLMRaises ==
    /\ pc = "llm"
    /\ oracleCalls' = oracleCalls + 1
    /\ result' = OracleError
    /\ pc' = "raised"
    /\ UNCHANGED <<agentVars, max_iterations, iteration, messages, response, toolCalls,
                   iterTools, textVars, toolVars>>

\* a faulty variant: the structure that the tool fetched is stored in the
\* index
ExecuteAction_CacheStructure ==
    /\ pc = "parse"
    /\ Branch(response) = "action"
    /\ \E observation \in ToolResults :
          /\ messages' = messages \o <<AssistantMessage(response),
                                       ObservationMessage(observation)>>
          /\ agent' = IF observation = <<"result">>
                      THEN LoadRepo(agent, "o/a", "api")
                      ELSE agent
    /\ toolCalls' = toolCalls + 1
    /\ iterTools' = iterTools + 1
    /\ pc' = "loop"
    /\ UNCHANGED <<calls, max_iterations, iteration, response, result, oracleCalls,
                   textVars, toolVars>>

\* a faulty variant: the tool is executed a second time for the observation
ExecuteAction_Twice ==
    /\ pc = "parse"
    /\ Branch(response) = "action"
    /\ \E observation \in ToolResults :
          messages' = messages \o <<AssistantMessage(response),
                                    ObservationMessage(observation)>>
    /\ toolCalls' = toolCalls + 2
    /\ iterTools' = iterTools + 2
    /\ pc' = "loop"
    /\ UNCHANGED <<agentVars, max_iterations, iteration, response, result, oracleCalls,
                   textVars, toolVars>>

\* a faulty variant: a failed tool execution ends the query
ExecuteAction_AbortOnError ==
    /\ pc = "parse"
    /\ Branch(response) = "action"
    /\ \E observation \in ToolResults :
          IF observation = <<"error">>
          THEN /\ messages' = messages
               /\ result' = AnswerResult(observation)
               /\ pc' = "answered"
          ELSE /\ messages' = messages \o <<AssistantMessage(response),
                                            ObservationMessage(observation)>>
               /\ result' = result
               /\ pc' = "loop"
    /\ toolCalls' = toolCalls + 1
    /\ iterTools' = iterTools + 1
    /\ UNCHANGED <<agentVars, max_iterations, iteration, response, oracleCalls,
                   textVars, toolVars>>

\* a faulty variant: on the last permitted iteration the action is dropped
ExecuteAction_DropLast ==
    /\ pc = "parse"
    /\ Branch(response) = "action"
    /\ IF iteration = max_iterations
       THEN UNCHANGED <<messages, toolCalls, iterTools>>
       ELSE /\ \E observation \in ToolResults :
                  messages' = messages \o <<AssistantMessage(response),
                                            ObservationMessage(observation)>>
            /\ toolCalls' = toolCalls + 1
            /\ iterTools' = iterTools + 1
    /\ pc' = "loop"
    /\ UNCHANGED <<agentVars, max_iterations, iteration, response, result, oracleCalls,
                   textVars, toolVars>>

\* if action: execute the tool, truncate, append both messages
ExecuteAction ==
    /\ pc = "parse"
    /\ Branch(response) = "action"
    /\ \E observation \in ToolResults :
          messages' = messages \o <<AssistantMessage(response),
                                    ObservationMessage(observation)>>
    /\ toolCalls' = toolCalls + 1
    /\ iterTools' = iterTools + 1
    /\ pc' = "loop"
    /\ UNCHANGED <<agentVars, max_iterations, iteration, response, result, oracleCalls,
                   textVars, toolVars>>

\* a faulty variant: the return is missing and the loop goes on
ReturnAnswer_Continue ==
    /\ pc = "parse"
    /\ Branch(response) = "answer"
    /\ result' = AnswerResult(FinalAnswer[response].val)
    /\ messages' = messages \o <<AssistantMessage(response), CorrectiveMessage>>
    /\ pc' = "loop"
    /\ UNCHANGED <<agentVars, max_iterations, iteration, response, oracleCalls,
                   toolCalls, iterTools, textVars, toolVars>>

\* else: if final_answer: return final_answer
ReturnAnswer ==
    /\ pc = "parse"
    /\ Branch(response) = "answer"
    /\ result' = AnswerResult(FinalAnswer[response].val)
    /\ pc' = "answered"
    /\ UNCHANGED <<agentVars, max_iterations, iteration, messages, response, oracleCalls,
                   toolCalls, iterTools, textVars, toolVars>>

\* neither: append the response and the corrective message
Corrective ==
    /\ pc = "parse"
    /\ Branch(response) = "corrective"
    /\ messages' = messages \o <<AssistantMessage(response), CorrectiveMessage>>
    /\ pc' = "loop"
    /\ UNCHANGED <<agentVars, max_iterations, iteration, response, result, oracleCalls,
                   toolCalls, iterTools, textVars, toolVars>>

\* the while test fails: return the exhaustion message
Exhaust ==
    /\ pc = "loop"
    /\ ~LoopCondition(iteration, max_iterations)
    /\ result' = ExhaustionMessage(max_iterations)
    /\ pc' = "exhausted"
    /\ UNCHANGED <<agentVars, max_iterations, iteration, messages, response, oracleCalls,
                   toolCalls, iterTools, textVars, toolVars>>

Next ==
    \/ EnterIteration
    \/ CallLLM
    \/ ExecuteAction
    \/ ReturnAnswer
    \/ Corrective
    \/ Exhaust

Spec == Init /\ [][Next]_vars

\* every oracle call and every tool call returns, and the interpreter runs on
FairSpec == Spec /\ WF_vars(Next)

-----------------------------------------------------------------------------
(* The loop of ReActAgentWithUI.query_with_steps (src/ui.py), from its      *)
(* while statement; what it yields for display is left out.                *)

\* the response holds a final-answer marker, in either case
HasMarker(t) == "Final Answer:" \in Range(t) \/ "final answer:" \in Range(t)

\* ReActAgentWithUI._parse_action: nothing when there is a marker, else the
\* span from the first opening brace to the last closing brace
StepsParseAction(t) ==
    LET start_idx == FirstIdx(t, OpenBraces)
        end_idx == LastIdx(t, CloseBraces)
        json_str == SubSeq(t, start_idx, end_idx)
    IN  IF HasMarker(t) THEN None
        ELSE IF start_idx # 0 /\ end_idx # 0 /\ JsonLoads(json_str) /\ HasBothKeys(json_str)
        THEN Some(json_str)
        ELSE None

\* the final answer: what follows the last "Final Answer:", or the first
\* marker in another case when there is none, stripped
StepsFinalAnswer(t) ==
    IF "Final Answer:" \in Range(t)
    THEN Strip(From(t, LastIdx(t, {"Final Answer:"}) + 1))
    ELSE Strip(From(t, FirstIdx(t, {"final answer:"}) + 1))

\* the branch an iteration takes: the marker is looked for first
StepsBranch(r) ==
    IF HasMarker(r) THEN "answer"
    ELSE IF StepsParseAction(r).some THEN "action"
    ELSE "corrective"

StepsObservationMessage(observation) ==
    UserMessage(<<"Observation:">> \o observation
                    \o <<"Continue reasoning or provide a Final Answer.">>)

StepsCorrectiveMessage ==
    UserMessage(<<"Please provide either a valid action in JSON format or a Final Answer.">>)

StepsExhaustionMessage(ceiling) ==
    [kind |-> "exhausted", text |-> <<"Maximum Iterations Reached">>,
     ceiling |-> ceiling]

\* if "Final Answer:" in response ...: yield the answer and return
StepsAnswer ==
    /\ pc = "parse"
    /\ StepsBranch(response) = "answer"
    /\ result' = AnswerResult(StepsFinalAnswer(response))
    /\ pc' = "answered"
    /\ UNCHANGED <<agentVars, max_iterations, iteration, messages, response, oracleCalls,
                   toolCalls, iterTools, textVars, toolVars>>

\* if action: execute the tool and append both messages
StepsExecute ==
    /\ pc = "parse"
    /\ StepsBranch(response) = "action"
    /\ \E observation \in ToolResults :
          messages' = messages \o <<AssistantMessage(response),
                                    StepsObservationMessage(observation)>>
    /\ toolCalls' = toolCalls + 1
    /\ iterTools' = iterTools + 1
    /\ pc' = "loop"
    /\ UNCHANGED <<agentVars, max_iterations, iteration, response, result, oracleCalls,
                   textVars, toolVars>>

\* else: append the response and the prompt for an action or an answer
StepsCorrective ==
    /\ pc = "parse"
    /\ StepsBranch(response) = "corrective"
    /\ messages' = messages \o <<AssistantMessage(response), StepsCorrectiveMessage>>
    /\ pc' = "loop"
    /\ UNCHANGED <<agentVars, max_iterations, iteration, response, result, oracleCalls,
                   toolCalls, iterTools, textVars, toolVars>>

\* after the loop: the maximum of iterations was reached
StepsExhaust ==
    /\ pc = "loop"
    /\ ~LoopCondition(iteration, max_iterations)
    /\ result' = StepsExhaustionMessage(max_iterations)
    /\ pc' = "exhausted"
    /\ UNCHANGED <<agentVars, max_iterations, iteration, messages, response, oracleCalls,
                   toolCalls, iterTools, textVars, toolVars>>

StepsNext ==
    \/ EnterIteration
    \/ CallLLM
    \/ StepsAnswer
    \/ StepsExecute
    \/ StepsCorrective
    \/ StepsExhaust

SpecSteps == Init /\ [][StepsNext]_vars

\* the loop with an oracle whose calls may raise
OracleNext ==
    \/ EnterIteration
    \/ CallLLM
    \/ CallLLMRaises
    \/ ExecuteAction
    \/ ReturnAnswer
    \/ Corrective
    \/ Exhaust

SpecOracle == Init /\ [][OracleNext]_vars

-----------------------------------------------------------------------------
(* The pure text functions, applied to every text of a bounded family.     *)

IdleLoop ==
    /\ pc = "idle"
    /\ max_iterations = 0
    /\ iteration = 0
    /\ messages = <<>>
    /\ response = <<>>
    /\ result = NoResult
    /\ oracleCalls = 0
    /\ toolCalls = 0
    /\ iterTools = 0

TextInit ==
    /\ IdleLoop
    /\ IdleTool
    /\ IdleAgent
    /\ text = <<>>
    /\ nfrags = 0
    /\ out = None
    /\ phase = "input"
    /\ max_length = 0

\* the tokens a response to _extract_final_answer is composed of
AnswerTokens == {"Thought:", "Action:", "Observation:", "Final Answer:",
                 "final answer:", "Step 1:", "Step 2:", "Step 3:", "## Step",
                 "### Step", "SP", "NL", "w", "{"}

AnswerAppend ==
    /\ phase = "input"
    /\ nfrags < MaxAnswerLen
    /\ \E tok \in AnswerTokens : text' = Append(text, tok)
    /\ nfrags' = nfrags + 1
    /\ UNCHANGED <<agentVars, loopVars, toolVars, out, phase, max_length>>

AnswerApply ==
    /\ phase = "input"
    /\ out' = ExtractFinalAnswer(text)
    /\ phase' = "done"
    /\ UNCHANGED <<agentVars, loopVars, toolVars, text, nfrags, max_length>>

AnswerNext == AnswerAppend \/ AnswerApply

SpecAnswer == TextInit /\ [][AnswerNext]_vars

\* the pieces a response to _parse_action is composed of
ParseFragments == {<<"Action:">>, <<"w">>, <<"{">>, <<"}">>, <<"s}">>,
                   <<"Final Answer:">>, <<"final answer:">>,
                   <<"{", "tool", "parameters", "{">>, <<"}", "}">>,
                   <<"{", "tool", "parameters", "null", "}">>,
                   <<"{", "tool", "}">>, <<"{", "parameters">>}

ParseAppend ==
    /\ phase = "input"
    /\ nfrags < MaxParseFrags
    /\ \E frag \in ParseFragments : text' = text \o frag
    /\ nfrags' = nfrags + 1
    /\ UNCHANGED <<agentVars, loopVars, toolVars, out, phase, max_length>>

ParseApply ==
    /\ phase = "input"
    /\ out' = ParseAction(text)
    /\ phase' = "done"
    /\ UNCHANGED <<agentVars, loopVars, toolVars, text, nfrags, max_length>>

ParseNext == ParseAppend \/ ParseApply

SpecParse == TextInit /\ [][ParseNext]_vars

\* the pieces an observation is composed of
TruncFragments ==
    {<<"x">>, <<"x", "x", "x">>, <<"ws">>,
     <<"{", "total", "items", "[">>, <<"i">>, <<"i", "i", "i">>, <<"]", "}">>,
     <<"{", "dirs", "[">>, <<"{", "items", "null", "}">>,
     <<"]", "note", "7", "}">>}

TruncInit ==
    /\ IdleLoop
    /\ IdleTool
    /\ IdleAgent
    /\ text = <<>>
    /\ nfrags = 0
    /\ out = None
    /\ phase = "input"
    /\ max_length \in 1..MaxLength

TruncAppend ==
    /\ phase = "input"
    /\ nfrags < MaxObsFrags
    /\ \E frag \in TruncFragments : text' = text \o frag
    /\ nfrags' = nfrags + 1
    /\ UNCHANGED <<agentVars, loopVars, toolVars, out, phase, max_length>>

\* observation = self._truncate_observation(observation)
TruncApply ==
    /\ phase = "input"
    /\ out' = Some(TruncateObservation(text, max_length))
    /\ phase' = "once"
    /\ UNCHANGED <<agentVars, loopVars, toolVars, text, nfrags, max_length>>

\* the result is truncated again
TruncAgain ==
    /\ phase = "once"
    /\ text' = out.val
    /\ out' = Some(TruncateObservation(out.val, max_length))
    /\ phase' = "twice"
    /\ UNCHANGED <<agentVars, loopVars, toolVars, nfrags, max_length>>

TruncNext == TruncAppend \/ TruncApply \/ TruncAgain

SpecTruncate == TruncInit /\ [][TruncNext]_vars

-----------------------------------------------------------------------------
(* The content of a file, as get_file_contents puts it in its result.  The *)
(* file data is a sequence: its 'encoding', then the characters of its     *)
(* 'content', which are tokens:                                            *)
(*   "aGVs"   a group of four characters that decodes to the text "hel"    *)
(*   "////"   a group that decodes to three bytes that are not UTF-8       *)
(*   "NL" "!" a line feed, a character outside the base64 alphabet        *)
(*   "abc"    the three characters of a group that was cut short           *)

ContentTokens == {"aGVs", "////", "NL", "!", "abc"}

Encodings == {"base64", "none"}

\* base64.b64decode(content): characters outside the alphabet are
\* discarded; a group that is not complete raises binascii.Error
B64Decode(content) ==
    LET data == SelectSeq(content, LAMBDA c : c \notin {"NL", "!"})
    IN  IF "abc" \in Range(data)
        THEN [ok |-> FALSE, bytes |-> <<>>]
        ELSE [ok |-> TRUE, bytes |-> data]

\* decoded_bytes.decode('utf-8'): the text, or none on UnicodeDecodeError
Utf8Decode(bytes) ==
    IF "////" \in Range(bytes) THEN None
    ELSE Some([i \in 1..Len(bytes) |-> "hel"])

\* f"[Binary file, size: {len(decoded_bytes)} bytes]"
BinaryPlaceholder(bytes) ==
    <<"[Binary file, size:", ToString(3 * Len(bytes)), "bytes]">>

\* decoded_content: None unless the encoding is base64 and there is content
DecodedContent(encoding, content) ==
    IF encoding = "base64" /\ content # <<>>
    THEN LET decoded_bytes == B64Decode(content)
         IN  IF ~decoded_bytes.ok
             THEN Some(<<"[Error decoding content:", "Incorrect padding", "]">>)
             ELSE IF Utf8Decode(decoded_bytes.bytes).some
             THEN Utf8Decode(decoded_bytes.bytes)
             ELSE Some(BinaryPlaceholder(decoded_bytes.bytes))
    ELSE None

\* 'content': decoded_content or content
FileContent(encoding, content) ==
    LET decoded_content == DecodedContent(encoding, content)
    IN  IF decoded_content.some /\ decoded_content.val # <<>>
        THEN decoded_content.val
        ELSE content

DecodeInit ==
    /\ IdleLoop
    /\ IdleTool
    /\ IdleAgent
    /\ \E encoding \in Encodings : text = <<encoding>>
    /\ nfrags = 0
    /\ out = None
    /\ phase = "input"
    /\ max_length = 0

\* one more character of the content; nothing follows a group cut short
DecodeAppend ==
    /\ phase = "input"
    /\ nfrags < MaxContentFrags
    /\ text[Len(text)] # "abc"
    /\ \E tok \in ContentTokens : text' = Append(text, tok)
    /\ nfrags' = nfrags + 1
    /\ UNCHANGED <<agentVars, loopVars, toolVars, out, phase, max_length>>

\* the content of the result of get_file_contents
DecodeApply ==
    /\ phase = "input"
    /\ out' = Some(FileContent(Head(text), Tail(text)))
    /\ phase' = "done"
    /\ UNCHANGED <<agentVars, loopVars, toolVars, text, nfrags, max_length>>

DecodeNext == DecodeAppend \/ DecodeApply

SpecDecode == DecodeInit /\ [][DecodeNext]_vars

-----------------------------------------------------------------------------
(* One call of _execute_tool, for every tool name, every parameters value  *)
(* of a bounded family and every response of the server.                    *)

ToolInit ==
    /\ IdleLoop
    /\ IdleText
    /\ IdleAgent
    /\ tool_name \in ToolNames
    /\ parameters \in ParametersValues
    /\ tpc = "start"
    /\ tlocal = NoLocals
    /\ requests = <<>>
    /\ resp = NoResponse
    /\ outcome = NoOutcome
    /\ tresult = NoPayload
    /\ now = Now
    /\ previous = NoPrevious

\* from the entry of _execute_tool to its first request, or to its return
ToolStart ==
    /\ tpc = "start"
    /\ LET step == ExceptHandler(Validate(tool_name, parameters), tpc)
       IN  /\ tpc' = step.next
           /\ tresult' = step.payload
           /\ tlocal' = step.loc
    /\ UNCHANGED <<agentVars, loopVars, textVars, tool_name, parameters, requests, resp,
                   outcome, now, previous>>

\* one _request: send the request, classify the response, and go on to the
\* next request or to the return
Serve(r) ==
    /\ requests' = Append(requests, RequestAt(tpc, tool_name, parameters, tlocal))
    /\ resp' = r
    /\ outcome' = Request(r)
    /\ LET step == ExceptHandler(AfterRequest(tpc, Request(r), tool_name, tlocal), tpc)
       IN  /\ tpc' = step.next
           /\ tresult' = step.payload
           /\ tlocal' = step.loc
    /\ UNCHANGED <<agentVars, loopVars, textVars, tool_name, parameters, now>>

ToolRequest ==
    /\ tpc \in RequestPositions
    /\ \E r \in HttpResponses \cup {NoResponse} : Serve(r)
    /\ UNCHANGED previous

ToolNext == ToolStart \/ ToolRequest

SpecTool == ToolInit /\ [][ToolNext]_vars

-----------------------------------------------------------------------------
(* _execute_tool executed twice with the same tool and parameters, on a     *)
(* loaded agent in the middle of a conversation, against an upstream that   *)
(* has not changed: a request the first execution sent gets the response    *)
(* it got then.  The clock may have advanced between the two.               *)

\* the parameters of the repeated calls
RetryParameters ==
    {ps \in ParametersValues :
        /\ ps.mapping
        /\ ps.repo \in {Missing, Str(<<"o", "/", "r">>)}
        /\ ps.path = Str(<<"p">>)
        /\ ps.query = Str(<<"q">>)
        /\ ps.repos.type \in {"missing", "int"}}

RetryInit ==
    /\ pc = "idle"
    /\ max_iterations = 0
    /\ iteration = 0
    /\ messages = <<SystemMessage(<<"system_prompt">>), UserMessage(<<"Question:">>)>>
    /\ response = <<>>
    /\ result = NoResult
    /\ oracleCalls = 0
    /\ toolCalls = 0
    /\ iterTools = 0
    /\ IdleText
    /\ agent = CreateAgent(DEFAULT_REPOSITORIES,
                           [r \in Range(DEFAULT_REPOSITORIES) |-> "file"])
    /\ calls = [q \in Queries |-> NoCall]
    /\ tool_name \in ToolNames
    /\ parameters \in RetryParameters
    /\ tpc = "start"
    /\ tlocal = NoLocals
    /\ requests = <<>>
    /\ resp = NoResponse
    /\ outcome = NoOutcome
    /\ tresult = NoPayload
    /\ now = Now
    /\ previous = [NoPrevious EXCEPT !.run = 1]

\* one _request of either execution: the first is served any response, the
\* second the response the first got for the same request
RetryRequest ==
    /\ tpc \in RequestPositions
    /\ previous.run \in {1, 2}
    /\ LET request == RequestAt(tpc, tool_name, parameters, tlocal)
           k == Len(requests) + 1
           seen == /\ previous.run = 2
                   /\ k <= Len(previous.requests)
                   /\ previous.requests[k] = request
       IN  \E r \in (IF seen THEN {previous.served[k]}
                     ELSE HttpResponses \cup {NoResponse}) :
              /\ Serve(r)
              /\ previous' = IF previous.run = 1
                             THEN [previous EXCEPT !.served = Append(@, r)]
                             ELSE previous

\* the first execution is over: the same call is made again, MaxElapsed
\* seconds later at most
Retry ==
    /\ previous.run = 1
    /\ tpc \in {"returned", "raised"}
    /\ previous' = [previous EXCEPT !.run = 2, !.now = now, !.requests = requests,
                                    !.pc = tpc, !.result = tresult]
    /\ \E elapsed \in 0..MaxElapsed : now' = now + elapsed
    /\ tpc' = "start"
    /\ tlocal' = NoLocals
    /\ requests' = <<>>
    /\ resp' = NoResponse
    /\ outcome' = NoOutcome
    /\ tresult' = NoPayload
    /\ UNCHANGED <<agentVars, loopVars, textVars, tool_name, parameters>>

RetryNext == ToolStart \/ RetryRequest \/ Retry

SpecRetry == RetryInit /\ [][RetryNext]_vars

-----------------------------------------------------------------------------
(* The process that serves queries (src/main.py): the agent of get_agent,   *)
(* shared by every call, and calls of ReActAgent.query that may run         *)
(* concurrently, each with its own locals.  The call "main" comes in        *)
(* through main.query; the call "direct" is ReActAgent.query called on the *)
(* same agent by another caller, with repositories of its choice.          *)
(* A repository identifier is one token; pc is the position of a call:      *)
(*   "idle"        not called yet                                          *)
(*   "compare"     in ReActAgent.query, about to compute repos_changed      *)
(*   "assign"      about to assign self.repositories                        *)
(*   "for_reload" "for_load"   about to start _load_repository_structures   *)
(*   "reload" "load"           in its for loop, between two repositories    *)
(*   "cached"      at the test 'if not self.repo_structures'                *)
(*   "context"     about to build the context summary                       *)
(*   "conversation"  about to build the conversation                        *)
(*   "answered" "exhausted" "raised"   ReActAgent.query is over             *)
(*   "returned" "escaped"              main.query is over                   *)

\* the exception of a failed create_agent, as it leaves main.query
CreationError == [kind |-> "raised", text |-> <<"key must be a string">>, ceiling |-> 0]

\* the exception that evaluating the f-string of the first user message raises
FormatError == [kind |-> "raised", text |-> <<"Invalid format specifier">>, ceiling |-> 0]

\* f"Error processing query: {str(e)}"
ErrorDescription(e) ==
    [kind |-> "error", text |-> <<"Error processing query:">> \o e.text, ceiling |-> 0]

\* no agent yet, or one that another caller made with create_agent() and no
\* repositories
ServeInit ==
    /\ IdleLoop
    /\ IdleText
    /\ IdleTool
    /\ agent \in {NoAgent, CreateAgent(<<>>, <<>>)}
    /\ calls = [q \in Queries |-> NoCall]

\* main.query(input): repositories = DEFAULT_REPOSITORIES and
\* agent = get_agent(), which creates the agent on the first call and may
\* fail doing so; both are outside the try.  Then agent.query is entered.
MainQuery ==
    /\ calls["main"].pc = "idle"
    /\ \/ /\ agent.created
          /\ calls' = [calls EXCEPT !["main"].pc = "compare",
                                    !["main"].repositories = DEFAULT_REPOSITORIES]
          /\ agent' = agent
       \/ /\ ~agent.created
          /\ \E o \in [Range(DEFAULT_REPOSITORIES) -> Loaded] :
                agent' = CreateAgent(DEFAULT_REPOSITORIES, o)
          /\ calls' = [calls EXCEPT !["main"].pc = "compare",
                                    !["main"].repositories = DEFAULT_REPOSITORIES]
       \/ /\ ~agent.created
          /\ calls' = [calls EXCEPT !["main"].pc = "escaped",
                                    !["main"].result = CreationError]
          /\ agent' = agent
    /\ UNCHANGED <<loopVars, textVars, toolVars>>

\* another caller calls query(user_query, repositories) on the agent;
\* if repositories:
DirectQuery ==
    /\ calls["direct"].pc = "idle"
    /\ agent.created
    /\ \E repos \in RepositoriesArgs :
          calls' = [calls EXCEPT
             !["direct"].pc = IF repos # <<>> THEN "compare" ELSE "cached",
             !["direct"].repositories = repos]
    /\ UNCHANGED <<loopVars, textVars, toolVars, agent>>

\* repos_changed = set(repositories) != set(self.repositories)
Compare(q) ==
    /\ calls[q].pc = "compare"
    /\ calls' = [calls EXCEPT ![q].pc = "assign",
                              ![q].repos_changed =
                                  Range(calls[q].repositories) # Range(agent.repositories)]
    /\ UNCHANGED <<loopVars, textVars, toolVars, agent>>

\* self.repositories = repositories; if repos_changed:
AssignRepositories(q) ==
    /\ calls[q].pc = "assign"
    /\ agent' = [agent EXCEPT !.repositories = calls[q].repositories]
    /\ calls' = [calls EXCEPT ![q].pc = IF calls[q].repos_changed
                                        THEN "for_reload" ELSE "cached"]
    /\ UNCHANGED <<loopVars, textVars, toolVars>>

\* if not self.repo_structures and self.repositories:
CheckCached(q) ==
    /\ calls[q].pc = "cached"
    /\ calls' = [calls EXCEPT ![q].pc = IF Len(agent.repo_structures) = 0
                                           /\ agent.repositories # <<>>
                                        THEN "for_load" ELSE "context"]
    /\ UNCHANGED <<loopVars, textVars, toolVars, agent>>

\* for idx, repo in enumerate(self.repositories, 1): the list is read once
ForRepositories(q) ==
    /\ calls[q].pc \in {"for_reload", "for_load"}
    /\ calls' = [calls EXCEPT ![q].pc = IF calls[q].pc = "for_reload"
                                        THEN "reload" ELSE "load",
                              ![q].todo = agent.repositories,
                              ![q].idx = 0]
    /\ UNCHANGED <<loopVars, textVars, toolVars, agent>>

\* the body of the for loop, for the next repository
LoadStep(q) ==
    /\ calls[q].pc \in {"reload", "load"}
    /\ \E loaded \in Loaded :
          agent' = LoadRepo(agent, Head(calls[q].todo), loaded)
    /\ calls' = [calls EXCEPT ![q].todo = Tail(calls[q].todo),
                              ![q].idx = calls[q].idx + 1,
                              ![q].pc = IF Len(calls[q].todo) > 1 THEN calls[q].pc
                                        ELSE IF calls[q].pc = "reload" THEN "cached"
                                        ELSE "context"]
    /\ UNCHANGED <<loopVars, textVars, toolVars>>

\* repo_context = self._get_repo_context_summary()
RepoContext(q) ==
    /\ calls[q].pc = "context"
    /\ calls' = [calls EXCEPT ![q].pc = "conversation",
                              ![q].repo_context = GetRepoContextSummary(agent)]
    /\ UNCHANGED <<loopVars, textVars, toolVars, agent>>

\* messages = [SystemMessage(...), UserMessage(content=f"""...""")]: the
\* f-string is evaluated field by field; the JSON examples of lines 875-884
\* are written with single braces, so each is a replacement field whose
\* format specification str.__format__ rejects: ValueError is raised at the
\* first of them, messages is never bound and the exception leaves query
NewConversation(q) ==
    /\ calls[q].pc = "conversation"
    /\ calls' = [calls EXCEPT ![q].pc = "raised",
                              ![q].result = FormatError]
    /\ UNCHANGED <<loopVars, textVars, toolVars, agent>>

\* main.query: return answer, or in the except clause the error description
MainReturn ==
    /\ calls["main"].pc \in {"answered", "exhausted", "raised"}
    /\ calls' = [calls EXCEPT
          !["main"].pc = "returned",
          !["main"].result = IF calls["main"].pc = "raised"
                             THEN ErrorDescription(calls["main"].result)
                             ELSE calls["main"].result]
    /\ UNCHANGED <<loopVars, textVars, toolVars, agent>>

ServeNext ==
    \/ MainQuery
    \/ DirectQuery
    \/ MainReturn
    \/ \E q \in Queries :
          \/ Compare(q)
          \/ AssignRepositories(q)
          \/ CheckCached(q)
          \/ ForRepositories(q)
          \/ LoadStep(q)
          \/ RepoContext(q)
          \/ NewConversation(q)

SpecServe == ServeInit /\ [][ServeNext]_vars

-----------------------------------------------------------------------------
(* Properties of the loop. *)

Terminal == {"answered", "exhausted"}

Max0(n) == IF n > 0 THEN n ELSE 0

\* a measure of the work left: the iterations left, and within an iteration
\* the position
Measure ==
    IF pc \in Terminal THEN 0
    ELSE 3 * Max0(max_iterations - iteration)
           + (IF pc = "loop" THEN 1 ELSE IF pc = "parse" THEN 2 ELSE 3)

C2_Original == iteration <= max_iterations /\ oracleCalls <= max_iterations

\* C2, amended: the counter starts at 0, never decreases, grows by exactly 1
\* and only on entering an iteration, whose next step is the oracle call; each
\* oracle call is the first since the counter grew; and the counter and the
\* number of oracle calls are at most max_iterations, or 0 when
\* max_iterations is negative.
C2_CounterBounded ==
    /\ iteration = 0
    /\ [](/\ iteration <= Max0(max_iterations)
          /\ oracleCalls <= iteration
          /\ (max_iterations <= 0 => oracleCalls = 0))
    /\ [][/\ iteration' = iteration \/ iteration' = iteration + 1
          /\ iteration' = iteration + 1 => pc' = "llm" /\ oracleCalls' = oracleCalls
          /\ oracleCalls' # oracleCalls =>
                pc = "llm" /\ oracleCalls' = oracleCalls + 1 /\ oracleCalls' = iteration]_vars

\* C2: the counter has reached a positive ceiling, one oracle call each time
C2_Witness ==
    pc = "loop" /\ max_iterations = 2 /\ iteration = 2 /\ oracleCalls = 2

\* C3: when max_iterations iterations are over and no answer was accepted,
\* the next step of query returns the exhaustion message, and the message
\* names max_iterations; query returns that message in no other case.
C3_ExhaustionMessage ==
    /\ [][pc = "loop" /\ iteration >= max_iterations =>
             /\ pc' = "exhausted"
             /\ result'.kind = "exhausted"
             /\ result'.ceiling = max_iterations]_vars
    /\ [](pc = "exhausted" =>
             /\ result.kind = "exhausted"
             /\ result.ceiling = max_iterations
             /\ iteration = Max0(max_iterations))
    /\ [](result.kind = "exhausted" => pc = "exhausted")

\* C3: exhausted after a mix of tool-executing and corrective iterations
C3_Witness ==
    /\ pc = "exhausted"
    /\ max_iterations = 3
    /\ oracleCalls = 3
    /\ toolCalls >= 1
    /\ toolCalls < oracleCalls
    /\ result.ceiling = 3

\* C4: a response with no action and an extracted answer makes query return
\* exactly the extracted text, with no further oracle call, tool call or
\* message; once query has answered nothing happens any more, and the
\* number of oracle calls it made is the iteration it answered at.
C4_AnswerStops ==
    /\ [][(pc = "parse" /\ ~ParseAction(response).some
                        /\ ExtractFinalAnswer(response).some) =>
             /\ pc' = "answered"
             /\ result' = [kind |-> "answer",
                           text |-> ExtractFinalAnswer(response).val,
                           ceiling |-> 0]
             /\ oracleCalls' = oracleCalls
             /\ toolCalls' = toolCalls
             /\ messages' = messages]_vars
    /\ [][pc = "answered" => UNCHANGED vars]_vars
    /\ [](pc = "answered" => oracleCalls = iteration /\ result.kind = "answer")

\* C4: an action at iteration 1 and the answer at iteration 2 of 3: two
\* oracle calls, never a third
C4_Witness ==
    /\ pc = "answered"
    /\ max_iterations = 3
    /\ iteration = 2
    /\ oracleCalls = 2
    /\ toolCalls = 1
    /\ result.text = <<"w">>

\* C5: an iteration makes exactly one oracle call and at most one tool
\* execution: exactly one when its response yields an action, none
\* otherwise; so tool executions never outnumber oracle calls.
C5_OnePerIteration ==
    /\ toolCalls <= oracleCalls
    /\ iterTools <= 1
    /\ oracleCalls = (IF pc = "llm" THEN iteration - 1 ELSE iteration)
    /\ (pc \in {"llm", "parse", "answered"} => iterTools = 0)
    /\ (pc \in {"loop", "exhausted"} /\ iteration > 0 =>
           iterTools = (IF ParseAction(response).some THEN 1 ELSE 0))

\* C5: three iterations done, two of them with a tool execution
C5_Witness ==
    pc = "loop" /\ oracleCalls = 3 /\ toolCalls = 2 /\ iterTools = 1

\* a line of the text starts, after white space, with the final-answer marker
HasAnswerLine(t) ==
    \E k \in 1..Len(SplitLines(t)) :
        LET line == LStrip(SplitLines(t)[k])
        IN  Len(line) > 0 /\ line[1] \in {"Final Answer:", "final answer:"}

\* C6: the action is looked for first: a response that yields an action has
\* its tool executed and the loop goes on, also when the response has a
\* final-answer line; query answers only on a response with no action and an
\* extracted answer.
C6_ActionFirst ==
    /\ [][pc = "parse" /\ ParseAction(response).some =>
             /\ pc' = "loop"
             /\ toolCalls' = toolCalls + 1
             /\ result' = result]_vars
    /\ [][pc # "answered" /\ pc' = "answered" =>
             /\ pc = "parse"
             /\ ~ParseAction(response).some
             /\ ExtractFinalAnswer(response).some]_vars

\* C6: the tool was executed on a response that has an action and a
\* final-answer line that the extractor accepts
C6_Witness ==
    /\ pc = "loop"
    /\ iterTools = 1
    /\ HasAnswerLine(response)
    /\ ExtractFinalAnswer(response).some
    /\ result.kind = "none"

\* the last message of the conversation is an observation with an 'error'
\* field
C14_ErrorObservation(ms) ==
    Len(ms) > 0 /\ ms[Len(ms)] = ObservationMessage(<<"error">>)

\* C14: a tool execution, failed or not, appends the response and the
\* observation, an error payload when it failed, and leaves the query
\* running at the while test with nothing returned; from there, after an
\* error observation, the next iteration is entered if the ceiling allows,
\* and its oracle call is made with the conversation that holds it.
C14_FailureGoesOn ==
    /\ [][pc = "parse" /\ ParsedAction[response].some =>
             /\ \E observation \in ToolResults :
                   messages' = messages \o <<AssistantMessage(response),
                                             ObservationMessage(observation)>>
             /\ pc' = "loop"
             /\ result' = NoResult]_vars
    /\ [][pc = "loop" /\ C14_ErrorObservation(messages)
                      /\ iteration < max_iterations =>
             pc' = "llm" /\ messages' = messages /\ result' = NoResult]_vars
    /\ [][pc = "llm" =>
             pc' = "parse" /\ oracleCalls' = oracleCalls + 1
                           /\ messages' = messages]_vars

\* C14: the second oracle call was made after the tool of the first
\* iteration had failed
C14_Witness ==
    /\ pc = "parse"
    /\ oracleCalls = 2
    /\ toolCalls = 1
    /\ C14_ErrorObservation(messages)
    /\ result = NoResult

-----------------------------------------------------------------------------
(* Properties of _extract_final_answer, under SpecAnswer. *)

AnswerMarkers == {"Final Answer:", "final answer:"}

\* the text holds a step marker, the word "Observation:", or more than one
\* "Thought:" or more than one "Action:"
C7_Simulated(t) ==
    \/ \E i \in 1..Len(t) :
          t[i] \in {"Step 1:", "Step 2:", "Step 3:", "## Step", "### Step",
                    "Observation:"}
    \/ \E i, j \in 1..Len(t) : i < j /\ t[i] = "Thought:" /\ t[j] = "Thought:"
    \/ \E i, j \in 1..Len(t) : i < j /\ t[i] = "Action:" /\ t[j] = "Action:"

\* C7: _extract_final_answer returns none for every text that holds a step
\* marker, "Observation:", more than one "Thought:" or more than one
\* "Action:", whatever else the text holds.
C7_SimulationRejected ==
    phase = "done" /\ C7_Simulated(text) => out = None

\* C7: a well-formed final-answer line after a step marker was rejected
C7_Witness ==
    /\ phase = "done"
    /\ text = <<"Step 2:", "NL", "Final Answer:", "w">>
    /\ out = None

\* "Action:" and an opening brace right after it occur after a final-answer
\* marker
C8_ActionAfterAnswer(t) ==
    \E i, j \in 1..Len(t) :
        /\ i < j
        /\ t[i] \in AnswerMarkers
        /\ t[j] = "Action:"
        /\ j < Len(t)
        /\ t[j + 1] = "{"

\* C8, as stated: _extract_final_answer returns none whenever a structured
\* action marker occurs after a final-answer marker, on a later line or later
\* on the same line.
C8_Original ==
    phase = "done" /\ C8_ActionAfterAnswer(text) => out = None

\* the lines of t that start, after white space, with the marker
C9_MarkerLines(t) ==
    {k \in 1..Len(SplitLines(t)) :
        LET line == LStrip(SplitLines(t)[k])
        IN  Len(line) > 0 /\ line[1] \in AnswerMarkers}

\* the last of them
C9_LastMarkerLine(t) ==
    CHOOSE k \in C9_MarkerLines(t) : \A m \in C9_MarkerLines(t) : m <= k

\* a rejection rule triggers: the text is a simulation, or a line below the
\* last marker line holds "Action:" and a brace occurs on it or after it
C9_Rejected(t) ==
    \/ C7_Simulated(t)
    \/ /\ C9_MarkerLines(t) # {}
       /\ \E k, m \in 1..Len(SplitLines(t)) :
             /\ C9_LastMarkerLine(t) < k
             /\ k <= m
             /\ "Action:" \in Range(SplitLines(t)[k])
             /\ Range(SplitLines(t)[m]) \cap OpenBraces # {}

\* the text from just after the marker that starts line k to the end of the
\* text, trimmed
C9_RestAfterLineMarker(t, k) ==
    LET lines == SplitLines(t)
        line == LStrip(lines[k])
    IN  Strip(JoinLines(<<Tail(line)>> \o From(lines, k + 1)))

C9_Answer(t) ==
    LET lines == SplitLines(t)
        k == C9_LastMarkerLine(t)
        line == lines[k]
        m == IF \E i \in 1..Len(line) : line[i] = "Final Answer:"
             THEN CHOOSE i \in 1..Len(line) :
                     /\ line[i] = "Final Answer:"
                     /\ \A j \in 1..(i - 1) : line[j] # "Final Answer:"
             ELSE CHOOSE i \in 1..Len(line) :
                     /\ line[i] = "final answer:"
                     /\ \A j \in 1..(i - 1) : line[j] = "SP"
        first == Strip(SubSeq(line, m + 1, Len(line)))
    IN  Strip(JoinLines(<<first>> \o From(lines, k + 1)))

-----------------------------------------------------------------------------
(* Properties of _parse_action, under SpecParse. *)

\* s is a well-formed action object: it loads as JSON and has at its top a
\* tool and parameters that are an object
C10_IsAction(s) ==
    /\ JsonLoads(s)
    /\ \E i \in 1..Len(s) : s[i] = "tool" /\ Depth(s, i) = 1
    /\ \E i \in 1..(Len(s) - 1) :
          s[i] = "parameters" /\ Depth(s, i) = 1 /\ s[i + 1] = "{"

\* the places of the objects of t that have both keys, whatever their values
C10_Candidates(t) ==
    {span \in (1..Len(t)) \X (1..Len(t)) :
        /\ span[1] < span[2]
        /\ JsonLoads(SubSeq(t, span[1], span[2]))
        /\ HasBothKeys(SubSeq(t, span[1], span[2]))}

\* C10, as stated: for a text that holds exactly one object with both keys,
\* that object being a well-formed action, and no final-answer marker,
\* _parse_action returns that action, whatever surrounds or fills it.
C10_Original ==
    /\ phase = "done"
    /\ Range(text) \cap AnswerMarkers = {}
    /\ Cardinality(C10_Candidates(text)) = 1
    /\ \A span \in C10_Candidates(text) : C10_IsAction(SubSeq(text, span[1], span[2]))
    => \E span \in C10_Candidates(text) :
          out = Some(SubSeq(text, span[1], span[2]))

\* C11, as stated: every action _parse_action returns holds both a tool and
\* parameters that are a mapping; a candidate whose parameters are not a
\* mapping is never returned.
C11_Original ==
    phase = "done" /\ out.some => C10_IsAction(out.val)

\* the first final-answer marker of t, in either case (0 if none)
C12_FirstMarker(t) == FirstIdx(t, AnswerMarkers)

\* C12, as stated: when the text has no "Action:" (so that only the two
\* fallbacks can return) and holds a final-answer marker in some case, the
\* JSON of a returned well-formed action lies wholly before the first such
\* marker.
C12_Original ==
    /\ phase = "done"
    /\ "Action:" \notin Range(text)
    /\ C12_FirstMarker(text) # 0
    /\ out.some
    /\ C10_IsAction(out.val)
    => \E i, j \in 1..(C12_FirstMarker(text) - 1) :
          i <= j /\ SubSeq(text, i, j) = out.val


-----------------------------------------------------------------------------
(* Properties of _execute_tool and _request, under SpecTool. *)

\* C13: _execute_tool never raises: whatever the tool name, the parameters
\* (a non-mapping included) and the failure of the client, the call is never
\* left by an exception and can always go on until it returns; what it
\* returns is a serialized payload, and whenever the parameters are no
\* mapping, the tool is unknown or the client raised, that payload has an
\* 'error' field with a message.
C13_NeverRaises ==
    /\ tpc # "raised"
    /\ tpc # "returned" => ENABLED ToolNext
    /\ tpc = "returned" =>
          /\ tresult.kind # "none"
          /\ Serialized(tresult) \in ToolResults
          /\ tresult.error => tresult.message.text # ""
          /\ (~parameters.mapping \/ tool_name \notin KnownTools
                \/ outcome.kind = "raise") => tresult.error

\* C13: the connection failed on the second request of a call, which
\* returned an error payload
C13_Witness ==
    /\ tpc = "returned"
    /\ Len(requests) = 2
    /\ outcome.kind = "raise"
    /\ outcome.exc.type = "ConnectionError"
    /\ tresult.error
    /\ tresult.message.text = "connection failed"

C16_MaxRequests(tn) ==
    IF tn = "get_repo_structure" THEN 3
    ELSE IF tn \in {"search_code", "search_issues", "get_file_contents"} THEN 1
    ELSE 0

\* C16: nothing is retried: a step of the call sends at most one request, no
\* request is sent twice, a request that fails ends the call with an error
\* payload, and one execution sends at most 1 request for search_code,
\* search_issues and get_file_contents and at most 3 for get_repo_structure.
C16_NoRetry ==
    /\ [](Len(requests) <= C16_MaxRequests(tool_name))
    /\ [](\A i, j \in 1..Len(requests) : i < j => requests[i] # requests[j])
    /\ [](outcome.kind = "raise" => tpc = "returned" /\ tresult.error)
    /\ [][Len(requests') <= Len(requests) + 1]_vars
    /\ [][requests' # requests /\ outcome'.kind = "raise" =>
             tpc' = "returned" /\ tresult'.error]_vars
    /\ [][tpc = "returned" => requests' = requests]_vars

\* C16: get_repo_structure was rate-limited on its third request and ended
\* there
C16_Witness ==
    /\ tool_name = "get_repo_structure"
    /\ Len(requests) = 3
    /\ resp.status = 403
    /\ outcome.exc.text = "GitHub API rate limit exceeded."
    /\ tpc = "returned"
    /\ tresult.error

\* the value is a string of the form owner/name, owner and name not empty
C17_MatchesOwnerName(v) ==
    /\ v.type = "str"
    /\ "/" \in Range(v.val)
    /\ Owner(v.val) # <<>>
    /\ RepoName(v.val) # <<>>

\* C17, as stated: for get_repo_structure and get_file_contents, when 'repo'
\* does not have the form owner/name, or 'path' is missing or empty for
\* get_file_contents, no request is sent and an error payload is returned.
C17_Original ==
    /\ tool_name \in {"get_repo_structure", "get_file_contents"}
    /\ \/ ~C17_MatchesOwnerName(parameters.repo)
       \/ tool_name = "get_file_contents" /\ parameters.path.val = <<>>
    => /\ requests = <<>>
       /\ tpc = "returned" => tresult.error

\* C18, as stated: for search_code and search_issues, when 'query' is
\* missing, no search request is sent and an error payload is returned.
C18_Original ==
    /\ tool_name \in {"search_code", "search_issues"}
    /\ parameters.mapping
    /\ parameters.query.type = "missing"
    => /\ requests = <<>>
       /\ tpc = "returned" => tresult.error

\* C19, as stated: every request that is sent targets permitted repositories
\* only: the repository of a tree or file request is one of
\* self.repositories, and so is every repository a search is restricted to.
C19_Original ==
    \A i \in 1..Len(requests) :
        /\ requests[i].repo # <<>> => requests[i].repo \in Range(repositories)
        /\ Range(requests[i].repos) \subseteq Range(repositories)

-----------------------------------------------------------------------------
(* Properties of _truncate_observation, under SpecTruncate. *)

\* C20, as stated: _truncate_observation is idempotent: truncating a
\* truncated payload again, with the same max_length, gives the same
\* payload.
C20_Original ==
    phase = "twice" => out.val = text

\* the list members of a parsed payload
C21_Lists(members) == {k \in 1..Len(members) : members[k].type = "list"}

\* the payload is a JSON object with a list field and no note
C21_ListBearing(s) ==
    LET data == ObsLoads(s)
    IN  /\ data.ok
        /\ C21_Lists(data.members) # {}
        /\ \A k \in 1..Len(data.members) : data.members[k].key # "note"

\* the longest list of a list-bearing payload has n items
C21_MostItems(s) ==
    LET members == ObsLoads(s).members
        k == CHOOSE k \in C21_Lists(members) :
                 \A l \in C21_Lists(members) :
                     Len(members[l].items) <= Len(members[k].items)
    IN  Len(members[k].items)

\* the payload is a JSON object whose note names n items
C21_Annotated(s, n) ==
    LET data == ObsLoads(s)
    IN  /\ data.ok
        /\ \E k \in 1..Len(data.members) :
               data.members[k].dump = <<"note", ToString(n)>>

\* C21, as stated: a list-bearing result with exactly 3 items comes out of
\* _truncate_observation with no "showing N of M" note, and one with 4 or
\* more items always comes out with the note that names its item count.
C21_Original ==
    phase = "once" /\ C21_ListBearing(text) =>
        /\ C21_MostItems(text) = 3 => "note" \notin Range(out.val)
        /\ C21_MostItems(text) >= 4 => C21_Annotated(out.val, C21_MostItems(text))

\* C22, as stated: an oversized payload that is a JSON object with a list
\* field, whichever field it is, comes out as a JSON object in which every
\* list holds its first 3 items, annotated with the original count of a list
\* that lost items; it is not cut in the middle.
C22_Original ==
    phase = "once" /\ Len(text) > max_length /\ ObsLoads(text).ok
                   /\ C21_Lists(ObsLoads(text).members) # {} =>
        LET before == ObsLoads(text).members
            after == ObsLoads(out.val)
        IN  /\ after.ok
            /\ \A k \in C21_Lists(before) :
                  /\ \E l \in C21_Lists(after.members) :
                        /\ after.members[l].key = before[k].key
                        /\ after.members[l].items =
                               SubSeq(before[k].items, 1, Min(Len(before[k].items), 3))
                  /\ Len(before[k].items) > 3 =>
                        C21_Annotated(out.val, Len(before[k].items))

\* C23, as stated: whatever the tool returned, the observation that comes
\* out of _truncate_observation has at most max_length characters plus the
\* characters of the truncation marker, also on the list-truncation path.
C23_Original ==
    phase = "once" =>
        Len(out.val) <= max_length + Len(TruncationMarker(Len(text)))

-----------------------------------------------------------------------------
(* Properties of the repository index, of concurrent calls and of the       *)
(* entry point.                                                            *)

Other(q) == CHOOSE o \in Queries : o # q

\* the call has not read or written the agent yet
C24_NotStarted(q) == calls[q].pc \in {"idle", "compare"}

\* the repositories named in the context summary that the call has built
C24_InContext(q) == Range(calls[q].repo_context) \cap {"o/a", "o/b"}

\* C24, as stated: when a call of query with a repository set different
\* from the agent's has built its context summary, and no other call has
\* touched the agent meanwhile, the keys of repo_structures are exactly the
\* repositories it supplied, and repo_structures_text and the context summary
\* hold no other repository; a call with the same set, in whatever order,
\* has loaded nothing.
C24_Original ==
    \A q \in Queries :
        (/\ calls[q].pc = "conversation"
         /\ calls[q].repositories # <<>>
         /\ C24_NotStarted(Other(q))) =>
            IF calls[q].repos_changed
            THEN /\ Keys(agent.repo_structures) = Range(calls[q].repositories)
                 /\ Keys(agent.repo_structures_text) \subseteq Range(calls[q].repositories)
                 /\ C24_InContext(q) \subseteq Range(calls[q].repositories)
            ELSE calls[q].idx = 0

\* C25: no step of the loop, from the first oracle call to the return,
\* changes repo_structures or repo_structures_text: not the execution of a
\* tool, get_repo_structure included, not a corrective step, not the return.
C25_IndexReadOnly ==
    [][/\ agent'.repo_structures = agent.repo_structures
       /\ agent'.repo_structures_text = agent.repo_structures_text]_vars

\* C25: the query is over after a tool execution that returned a result and
\* a corrective step, on an index that has an entry of a failed load
C25_Witness ==
    /\ pc \in Terminal
    /\ ObservationMessage(<<"result">>) \in Range(messages)
    /\ CorrectiveMessage \in Range(messages)
    /\ \E k \in 1..Len(agent.repo_structures) :
          agent.repo_structures[k].loaded = "error"

\* the call has assigned its repository list, or taken the agent's, and
\* ReActAgent.query is not over
C26_Running(q) ==
    calls[q].pc \in {"for_reload", "reload", "cached", "for_load", "load",
                     "context", "conversation"}

\* C26, as stated: while a call of query runs, a step of the other call
\* does not change the repository list that the call works with.
C26_Original ==
    [][\A q \in Queries :
          (C26_Running(q) /\ calls'[q] = calls[q]) =>
              agent'.repositories = agent.repositories]_vars

\* the call is in the for loop of _load_repository_structures
C27_Loading(q) == calls[q].pc \in {"reload", "load"}

\* C27, as stated: two loads of the index never overlap, and no call builds
\* its context summary while the other call is in the middle of a load.
C27_Original ==
    /\ [](\A q \in Queries : ~(C27_Loading(q) /\ C27_Loading(Other(q))))
    /\ [][\A q \in Queries :
             (calls[q].pc = "context" /\ calls'[q].pc = "conversation") =>
                 ~(C27_Loading(Other(q)) /\ calls[Other(q)].idx > 0)]_vars

\* C28: the step in which an oracle call raises ends the query with that
\* exception: it appends nothing and executes no tool, and after it no step
\* is taken, so no further oracle call is made and no answer is returned.
C28_OracleFailurePropagates ==
    [][/\ (result.kind # "raised" /\ result'.kind = "raised") =>
              /\ pc = "llm" /\ pc' = "raised"
              /\ oracleCalls' = oracleCalls + 1
              /\ messages' = messages
              /\ toolCalls' = toolCalls
       /\ result.kind # "raised"]_vars

\* C28: an oracle call raised after an earlier iteration executed a tool,
\* with iterations left
C28_Witness ==
    /\ pc = "raised"
    /\ result = OracleError
    /\ oracleCalls >= 2
    /\ toolCalls >= 1
    /\ iteration < max_iterations

\* C29, as stated: main.query lets no exception escape, and what it returns
\* is an answer, the exhaustion message or an error description.
C29_Original ==
    /\ calls["main"].pc # "escaped"
    /\ calls["main"].pc = "returned" =>
           calls["main"].result.kind \in {"answer", "exhausted", "error"}

\* C30, as stated, for the start of the conversation: a call of query that
\* went past the construction of its conversation holds one that starts
\* with the system message and a user message.
C30_Original ==
    \A q \in Queries :
        calls[q].pc \in {"answered", "exhausted", "raised"} =>
            /\ Len(calls[q].messages) >= 2
            /\ calls[q].messages[1].role = "system"
            /\ calls[q].messages[2].role = "user"

-----------------------------------------------------------------------------
(* Further properties of _execute_tool, under SpecTool. *)

\* the endpoints of the requests sent so far, in order
C31_Endpoints == [i \in 1..Len(requests) |-> requests[i].endpoint]

\* the hops of get_repository_tree, in order
C31_Hops ==
    IF parameters.branch.type = "missing"
    THEN <<"/repos/{owner}/{repo}", "/repos/{owner}/{repo}/branches/{branch}",
           "/repos/{owner}/{repo}/git/trees/{tree_sha}">>
    ELSE <<"/repos/{owner}/{repo}/branches/{branch}",
           "/repos/{owner}/{repo}/git/trees/{tree_sha}">>

\* C31: the requests of get_repo_structure are a prefix of its hops in
\* their order: repository, branch, tree when no branch is given, branch,
\* tree when one is; the branch looked up is the given one or the one the
\* repository hop returned, the tree fetched is the one the branch hop
\* returned; a hop is issued only after the hop before it has returned
\* data, so none is issued after a hop that failed.
C31_FixedOrder ==
    /\ [](tool_name = "get_repo_structure" =>
             /\ Len(requests) <= Len(C31_Hops)
             /\ C31_Endpoints = SubSeq(C31_Hops, 1, Len(requests))
             /\ \A i \in 1..Len(requests) :
                   /\ requests[i].endpoint = "/repos/{owner}/{repo}/branches/{branch}" =>
                         IF parameters.branch.type = "missing"
                         THEN requests[i].ref \in {<<"default_branch">>, <<"main">>}
                         ELSE requests[i].ref = parameters.branch.val
                   /\ requests[i].endpoint = "/repos/{owner}/{repo}/git/trees/{tree_sha}" =>
                         requests[i].ref = <<"sha">>)
    /\ [][(tool_name = "get_repo_structure" /\ requests # <<>> /\ requests' # requests) =>
             outcome.kind = "data"]_vars
    /\ [](tool_name = "get_repo_structure" /\ outcome.kind = "raise" => tpc = "returned")

\* C31: no branch was given, the repository named no default branch, and
\* the three hops were made
C31_Witness ==
    /\ tool_name = "get_repo_structure"
    /\ parameters.branch.type = "missing"
    /\ tpc = "returned"
    /\ Len(requests) = 3
    /\ requests[2].ref = <<"main">>
    /\ tresult = ResultPayload("structure")

\* C32, as stated: when the base64 content of a file decodes as UTF-8, the
\* content of the result is the decoded text; when it decodes to bytes that
\* are not UTF-8, it is the placeholder that names their number.
C32_Original ==
    (phase = "done" /\ Head(text) = "base64" /\ B64Decode(Tail(text)).ok) =>
        LET decoded_bytes == B64Decode(Tail(text)).bytes
        IN  IF Utf8Decode(decoded_bytes).some
            THEN out.val = Utf8Decode(decoded_bytes).val
            ELSE out.val = BinaryPlaceholder(decoded_bytes)

\* the words of a string: its maximal runs of non-whitespace tokens
RECURSIVE C33_Split(_, _)
C33_Split(s, word) ==
    IF s = <<>> THEN (IF word = <<>> THEN <<>> ELSE <<word>>)
    ELSE IF s[1] \in Whitespace
    THEN (IF word = <<>> THEN <<>> ELSE <<word>>) \o C33_Split(Tail(s), <<>>)
    ELSE C33_Split(Tail(s), Append(word, s[1]))

C33_Words(s) == C33_Split(s, <<>>)

\* one 'repo:<r>' qualifier for each r in R, in order
C33_RepoWords(R) == [k \in 1..Len(R) |-> <<"repo:">> \o R[k]]

\* a mapping of qualifiers with a null value, an empty value and a list
C33_Mapping(R) ==
    << [key |-> "is:", value |-> Str(<<"issue">>)],
       [key |-> "label:", value |-> [type |-> "none", val |-> <<>>]],
       [key |-> "state:", value |-> Str(<<>>)],
       [key |-> "repo:", value |-> [type |-> "list", val |-> R]] >>

\* C33: for search_code and search_issues with a query q and a repository
\* list R, the query string sent to the search endpoint is q followed by one
\* 'repo:<r>' qualifier for each r in R, in order (here and in the
\* ReActAgentWithUI override); the request names no repository outside the
\* query text; and the qualifiers of a mapping come after the free text,
\* with the None and "" values skipped.
C33_QueryString ==
    \A i \in 1..Len(requests) :
        requests[i].endpoint \in {"/search/code", "/search/issues"} =>
            LET q == Get(parameters.query, Str(<<>>)).val
                R == Get(parameters.repos,
                         [type |-> "list", val |-> repositories]).val
            IN  /\ C33_Words(requests[i].q) = C33_Words(q) \o C33_RepoWords(R)
                /\ C33_Words(BuildQuery(q, UIQualifiers(R)))
                       = C33_Words(q) \o C33_RepoWords(R)
                /\ requests[i].repo = <<>>
                /\ requests[i].path = <<>>
                /\ requests[i].ref = <<>>
                /\ requests[i].repos = R
                /\ C33_Words(BuildQuery(q, C33_Mapping(R)))
                       = C33_Words(q) \o << <<"is:", "issue">> >>
                             \o C33_RepoWords(R)

\* a search for " q " in two repositories was sent and answered
C33_Witness ==
    /\ tool_name = "search_issues"
    /\ tpc = "returned"
    /\ ~tresult.error
    /\ Len(requests) = 1
    /\ parameters.query = Str(<<"SP", "q", "SP">>)
    /\ requests[1].q = <<"q", "SP", "SP", "repo:", "o", "/", "r",
                         "SP", "repo:", "x", "/", "y">>


\* C40, as stated: for a tool name that is not one of the four tools,
\* _execute_tool sends no request and returns the 'Unknown tool' error.
C40_Original ==
    tool_name \notin KnownTools =>
        /\ requests = <<>>
        /\ tpc \in {"start", "returned"}
        /\ tpc = "returned" => tresult = ErrorPayload(Message("Unknown tool"))

-----------------------------------------------------------------------------
(* Further properties of _parse_action, under SpecParse. *)

\* C36, as stated: the steps are tried in order: when the brace-matched span
\* after 'Action:' is not valid JSON, the result is that of step 2 when the
\* span from the first '{' to the last '}' of the search text loads with
\* both keys, and that of the regex sweep only if step 2 fails too.
C36_Original ==
    (phase = "done" /\ Method1(text).kind = "raise") =>
        out = (IF Method2(text).kind = "return" THEN Some(Method2(text).val)
               ELSE Method3(text))

\* C37, as stated: whenever step 2 does not yield a candidate with both
\* keys, also when its span loads but lacks 'tool' or 'parameters', the
\* result is that of the regex sweep: the first fragment with at most one
\* level of nesting that loads with both keys.
C37_Original ==
    (/\ phase = "done"
     /\ Method1(text).kind # "return"
     /\ Method2(text).kind # "return") =>
        out = Method3(text)

-----------------------------------------------------------------------------
(* Further properties of the loop of query, under Spec. *)

\* C35: ReActAgent.query never returns an empty or whitespace-only string:
\* an accepted answer is trimmed and has content, and the fallback of an
\* exhausted loop is the fixed message, which is not empty.
C35_NeverEmpty ==
    pc \in {"answered", "exhausted"} =>
        /\ result.kind = (IF pc = "answered" THEN "answer" ELSE "exhausted")
        /\ Strip(result.text) # <<>>
        /\ result.kind = "answer" =>
              /\ result.text = Strip(result.text)
              /\ result.text = FinalAnswer[response].val
        /\ result.kind = "exhausted" =>
              result.text = <<"I've reached the maximum number of reasoning steps">>

\* a response whose final answer is blank was refused and the query went on
\* to return something else
C35_Witness ==
    /\ pc \in {"answered", "exhausted"}
    /\ \E i \in 1..Len(messages) :
          messages[i] = AssistantMessage(RespEmptyAnswer)

\* the response of the last permitted iteration yields an action
C39_LastAction ==
    pc = "parse" /\ iteration = max_iterations /\ Branch(response) = "action"

\* the conversation ends with the response and an observation
C39_ObservationLast ==
    /\ Len(messages) >= 2
    /\ messages[Len(messages) - 1] = AssistantMessage(response)
    /\ \E observation \in ToolResults :
          messages[Len(messages)] = ObservationMessage(observation)

\* C39: when the response of the last permitted iteration yields an action,
\* the tool is executed and its observation appended; from then on no
\* oracle call is made and nothing is appended, so no oracle call receives
\* the observation; and the query returns the exhaustion message.
C39_LastObservationUnseen ==
    /\ [][C39_LastAction =>
             /\ toolCalls' = toolCalls + 1
             /\ pc' = "loop"
             /\ C39_ObservationLast']_vars
    /\ [][(pc = "loop" /\ iteration = max_iterations /\ C39_ObservationLast) =>
             /\ pc' = "exhausted"
             /\ result' = ExhaustionMessage(max_iterations)
             /\ oracleCalls' = oracleCalls
             /\ messages' = messages]_vars
    /\ [][pc = "exhausted" => UNCHANGED vars]_vars
    /\ C39_LastAction ~> (/\ pc = "exhausted"
                          /\ result = ExhaustionMessage(max_iterations)
                          /\ C39_ObservationLast
                          /\ oracleCalls = max_iterations)

\* the query ran out with the observation of its last action unread
C39_Witness ==
    /\ pc = "exhausted"
    /\ max_iterations = 2
    /\ toolCalls = 2
    /\ oracleCalls = 2
    /\ C39_ObservationLast
    /\ result = ExhaustionMessage(2)

\* C38, as stated: query_with_steps and query go through the same outcomes:
\* on every response the basic loop takes the branch (tool executed,
\* corrective message, answered) that the loop of query takes on it, both
\* having the same ceiling and so the same test for exhaustion.
C38_Original ==
    pc = "parse" => StepsBranch(response) = Branch(response)

-----------------------------------------------------------------------------
(* Properties of a repeated _execute_tool, under SpecRetry. *)

\* the repetition of the call is over
C34_Repeated == previous.run = 2 /\ tpc \in {"returned", "raised"}

\* _execute_tool leaves the agent and the conversation as they are and
\* sends GET requests only
C34_Frame ==
    /\ [][agent' = agent /\ messages' = messages /\ calls' = calls]_vars
    /\ [](\A i \in 1..Len(requests) : requests[i].method = "GET")

\* C34, as stated: executing the same tool with the same parameters twice
\* against an unchanged upstream yields the same result.
C34_Original ==
    C34_Repeated => tresult = previous.result

\* a payload without the retry estimate of a rate-limit error
C34_WithoutWait(payload) == [payload EXCEPT !.message.wait = NoWait]

\* C34, amended: _execute_tool leaves the repository list, the index and
\* the conversation unchanged and sends GET requests only; repeated against
\* an unchanged upstream it sends the same requests and ends the same way,
\* with the same result when the clock shows the same second, and with a
\* result that differs at most in the retry estimate of a rate-limit error
\* otherwise.
C34_SameUpToClock ==
    /\ C34_Frame
    /\ [](C34_Repeated =>
            /\ requests = previous.requests
            /\ tpc = previous.pc
            /\ now = previous.now => tresult = previous.result
            /\ C34_WithoutWait(tresult) = C34_WithoutWait(previous.result)
            /\ tresult # previous.result =>
                  /\ resp.status = 403
                  /\ resp.remaining = "0"
                  /\ resp.reset.kind = "number")

\* a file was read twice, a second apart, with the same result
C34_Witness ==
    /\ C34_Repeated
    /\ tool_name = "get_file_contents"
    /\ now = previous.now + 1
    /\ Len(requests) = 1
    /\ tresult = ResultPayload("file")
    /\ tresult = previous.result

=============================================================================
